---- MODULE Spec2Model ----
(***************************************************************************)
(* A model of the account/bot scan coordination of the Telegram scanner:   *)
(*   - TelegramModule (modules/mt1_telegram.py): the account session, its  *)
(*     connect / is_connected / ensure_connected / get_entity /            *)
(*     get_participants primitives, the flood-wait handlers and            *)
(*     delegate_task, the bot-first / account-fallback delegator;          *)
(*   - BotManager (modules/bot_manager.py): the bot session;               *)
(*   - LoadBalancer and ConfigManager's rate limiting                      *)
(*     (modules/config_manager.py): the rate governor;                     *)
(*   - MainWindow (modules/gui.py): the account scan with its pause and    *)
(*     stop buttons, the periodic connection check, and                    *)
(*     fetch_and_store_participants;                                       *)
(*   - DatabaseModule (modules/mdb1_database.py): the upserts;             *)
(*   - ConfigManager.load_config and save_config and the configuration     *)
(*     file;                                                               *)
(*   - main (main.py): the start of the application.                       *)
(*                                                                         *)
(* An asynchronous method is an operator from the world it runs in (the    *)
(* objects' fields, the answers the platform is going to give, the trace   *)
(* of what was sent and slept so far) to the world it leaves, its return   *)
(* value and the exception it raised, if any.  Durations are in tenths of  *)
(* a second, so that asyncio.sleep(0.1) is a whole number.                 *)
(***************************************************************************)
EXTENDS Integers, Sequences, FiniteSets, TLC

VARIABLES
    tm,       \* TelegramModule, its BotManager and the two clients
    pc,       \* "idle": no call in progress; "returned": a call has returned
    req,      \* the call that returned last: its name and its arguments
    pre,      \* tm when that call started
    res,      \* what the call returned or raised
    trace,    \* what the call sent to the platform, and its sleeps, in order
    lb,       \* LoadBalancer: the rate governor's fields
    config,   \* ConfigManager.config: "default", or "file" with delay presets
    now,      \* the wall clock the governor reads, in ticks
    glog,     \* the times at which the requests counted by smart_delay were made
    gmark,    \* how many of them were made before the window in force began
    gcall,    \* the governor call that returned last
    scan,     \* MainWindow: the account scan, its flags, table and labels
    chk,      \* MainWindow: the connection check and the session it checks
    store,    \* the database: its tables, and the scan that is storing a group
    disk,     \* ConfigManager.config, the configuration file and a save of it
    boot,     \* the process: how far main has come, what it has shown
    bot,      \* BotManager: a call of start, check_status or stop, step by step
    tasks,    \* MainWindow: the tasks that use _task_lock and _check_lock
    search    \* MainWindow: the group search, its flags, lock and buttons

vars == <<tm, pc, req, pre, res, trace, lb, config, now, glog, gmark, gcall,
          scan, chk, store, disk, boot, bot, tasks,
          search>>

tgvars == <<tm, pc, req, pre, res, trace>>
govvars == <<lb, config, now, glog, gmark, gcall>>
restvars == <<bot, tasks, search>>
appvars == <<scan, chk, store, disk, boot, restvars>>
guivars == <<scan, chk, restvars>>
othervars == <<store, disk, boot>>
mainvars == <<scan, chk, store, disk, boot>>
besides_bot == <<tgvars, govvars, mainvars, tasks, search>>
besides_tasks == <<tgvars, govvars, mainvars, bot, search>>
besides_search == <<tgvars, govvars, mainvars, bot, tasks>>

(***************************************************************************)
(* Bounds of the model.                                                    *)
(***************************************************************************)
\* the longest sequence of answers the platform is scripted to give in a call
MaxScript == 3
\* the largest value of the `retries` argument
MaxRetries == 3
\* the seconds a FloodWaitError of the account session carries (e.seconds)
FloodSeconds == 5
\* the seconds a FloodWaitError of the bot session carries
BotRetryAfter == 5
\* the ticks of the governor's clock in one hour
TicksPerHour == 2
\* the last tick of the governor's clock
MaxTime == 3
\* the most requests smart_delay makes in one behaviour
MaxLog == 4
\* the largest request_count calculate_delay is given directly
MaxCount == 40
\* the groups loaded for an account scan
NumGroups == 2
\* the participants a scanned group has
GroupSize == 2
\* the largest max_accounts the limits are configured with
MaxAccounts == 2
\* the users of the group that is stored
NumUsers == 2
\* the times the group is scanned and stored
MaxScans == 2
\* the keywords of a group search
NumKeywords == 2

(***************************************************************************)
(* Program constants.                                                      *)
(***************************************************************************)
\* TelegramModule.rate_limit_delay, seconds
rate_limit_delay == 2

\* tenths of a second
Seconds(n) == 10 * n

(***************************************************************************)
(* The platform.  A request sent through a client is answered "ok" or with *)
(* one of telethon's errors.  The answers of a call are scripted: the      *)
(* k-th request of the call gets the k-th answer, and "ok" once the script *)
(* is used up.                                                             *)
(***************************************************************************)
Errors == {"FloodWaitError", "ChatAdminRequiredError", "ChannelPrivateError",
           "UsernameNotOccupiedError", "ConnectionError"}

Answers == {"ok"} \cup Errors

\* telethon.errors: the subclasses of RPCError among the errors
RPCErrors == {"FloodWaitError", "ChatAdminRequiredError", "ChannelPrivateError",
              "UsernameNotOccupiedError"}

\* what the bot session's participant enumeration is answered
BotAnswers == {"ok", "ChatAdminRequiredError", "FloodWaitError"}

Scripts == UNION {[1..n -> Answers] : n \in 0..MaxScript}

\* the participants of the scanned group as each session gets them
AccountParticipants == <<[id |-> 1, via |-> "account"], [id |-> 2, via |-> "account"],
                         [id |-> 3, via |-> "account"]>>

BotMembers == <<[id |-> 1, via |-> "bot"], [id |-> 2, via |-> "bot"],
                [id |-> 3, via |-> "bot"]>>

(***************************************************************************)
(* Results and traces.                                                     *)
(***************************************************************************)
Ret(w, v) == [w |-> w, ret |-> v, exc |-> "none"]

Raise(w, e) == [w |-> w, ret |-> "None", exc |-> e]

Event(op, r, n) == [op |-> op, r |-> r, n |-> n]

Log(w, op, r) == [w EXCEPT !.trace = Append(@, Event(op, r, 0))]

\* asyncio.sleep(n / 10)
Sleep(w, n) == [w EXCEPT !.trace = Append(@, Event("sleep", "", n))]

\* the next scripted answer
NextAnswer(w) == IF w.script = <<>> THEN "ok" ELSE Head(w.script)

Consume(w) == [w EXCEPT !.script = IF @ = <<>> THEN <<>> ELSE Tail(@)]

\* a request through the account client: it cannot be sent while the client
\* is disconnected
ClientCall(w, op) ==
    IF ~w.client_up
    THEN [w |-> Log(w, op, "ConnectionError"), r |-> "ConnectionError"]
    ELSE [w |-> Log(Consume(w), op, NextAnswer(w)), r |-> NextAnswer(w)]

\* self.client.connect()
ClientConnect(w) ==
    LET r == NextAnswer(w)
        w1 == Log(Consume(w), "client.connect", r)
    IN  [w |-> IF r = "ok" THEN [w1 EXCEPT !.client_up = TRUE] ELSE w1, r |-> r]

\* self.client.disconnect()
ClientDisconnect(w) ==
    LET r == NextAnswer(w)
        w1 == Log(Consume(w), "client.disconnect", r)
    IN  [w |-> IF r = "ok" THEN [w1 EXCEPT !.client_up = FALSE] ELSE w1, r |-> r]

\* a request through the bot client
BotCall(w, op) == [w |-> Log(Consume(w), op, NextAnswer(w)), r |-> NextAnswer(w)]

\* `await call`, then F of what it returned: the call is evaluated once
Await(call, F(_)) == CHOOSE r \in {F(x) : x \in {call}} : TRUE

(***************************************************************************)
(* BotManager                                                              *)
(***************************************************************************)
\* BotManager(...): a new, unconnected bot session
NewBotManager(w) == [w EXCEPT !.bot_manager = "BotManager", !._connected = FALSE]

\* BotManager.start, its except clause
start_failed(w, e) == Raise([w EXCEPT !._connected = FALSE], e)

\* BotManager.start
start(w) ==
    IF w._connected THEN Ret(w, "None")
    ELSE Await(BotCall(w, "bot.connect"), LAMBDA c1 :
         IF c1.r # "ok" THEN start_failed(c1.w, c1.r)
         ELSE Await(BotCall(c1.w, "bot.start"), LAMBDA c2 :
              IF c2.r # "ok" THEN start_failed(c2.w, c2.r)
              ELSE Await(BotCall(c2.w, "bot.get_me"), LAMBDA c3 :
                   IF c3.r # "ok" THEN start_failed(c3.w, c3.r)
                   ELSE Ret([c3.w EXCEPT !._connected = TRUE], "None"))))

\* BotManager.stop without the test of _connected
stop_unguarded(w) ==
    Await(BotCall(w, "bot.disconnect"), LAMBDA c :
        IF c.r # "ok" THEN Raise(c.w, c.r)
        ELSE Ret([c.w EXCEPT !._connected = FALSE], "None"))

\* BotManager.stop
stop(w) ==
    IF w._connected
    THEN Await(BotCall(w, "bot.disconnect"), LAMBDA c :
         IF c.r # "ok" THEN Raise(c.w, c.r)
         ELSE Ret([c.w EXCEPT !._connected = FALSE], "None"))
    ELSE Ret(w, "None")

\* BotManager.get_group_members
get_group_members(w, group_id) ==
    IF ~w._connected THEN Raise(w, "Exception")
    ELSE IF w.bot_answer = "ok"
         THEN Ret(Log(w, "bot.iter_participants", w.bot_answer), BotMembers)
         ELSE Raise(Log(w, "bot.iter_participants", w.bot_answer), w.bot_answer)

\* BotManager.monitor_group with max_monitored_members_per_group = 100: it
\* catches every exception of get_group_members
monitor_group(w, group_id) ==
    Await(get_group_members(w, group_id), LAMBDA g :
        IF g.exc # "none"
        THEN Ret(g.w, [members |-> <<>>, bot_accessible |-> FALSE, error |-> g.exc])
        ELSE IF Len(g.ret) <= 100
             THEN Ret(g.w, [members |-> g.ret, bot_accessible |-> TRUE,
                            error |-> "None"])
             ELSE Ret(g.w, [members |-> <<>>, bot_accessible |-> FALSE,
                            error |-> "Group too large"]))

(***************************************************************************)
(* TelegramModule: the account session                                     *)
(***************************************************************************)
\* TelegramModule.connect, its except clause
connect_failed(w) ==
    Ret([w EXCEPT !._is_connected = FALSE, !._is_authorized = FALSE], FALSE)

\* a bot session that stays in bot_manager when its start has failed
connect_bot_kept(w) ==
    IF w._is_connected /\ w.bot_token # "None"
    THEN start(NewBotManager(w)).w
    ELSE w

\* TelegramModule.connect, the bot session after the account's
connect_bot(w) ==
    IF w._is_connected /\ w.bot_token # "None"
    THEN Await(start(NewBotManager(w)), LAMBDA s :
         IF s.exc # "none"
         THEN [s.w EXCEPT !.bot_manager = "None", !._connected = FALSE]
         ELSE s.w)
    ELSE w

\* TelegramModule.connect without the test of _is_connected
connect_unconditional(w) ==
    Await(ClientConnect(w), LAMBDA c1 :
        IF c1.r # "ok" THEN connect_failed(c1.w)
        ELSE Await(ClientCall([c1.w EXCEPT !._is_connected = TRUE],
                              "client.is_user_authorized"), LAMBDA c2 :
             IF c2.r # "ok" THEN connect_failed(c2.w)
             ELSE Ret(Sleep(connect_bot([c2.w EXCEPT !._is_authorized =
                                                         c2.w.user_authorized]),
                            Seconds(rate_limit_delay)), TRUE)))

\* TelegramModule.connect
connect(w) ==
    IF ~w._is_connected
    THEN Await(ClientConnect(w), LAMBDA c1 :
         IF c1.r # "ok" THEN connect_failed(c1.w)
         ELSE Await(ClientCall([c1.w EXCEPT !._is_connected = TRUE],
                               "client.is_user_authorized"), LAMBDA c2 :
              IF c2.r # "ok" THEN connect_failed(c2.w)
              ELSE Ret(Sleep(connect_bot([c2.w EXCEPT !._is_authorized =
                                                          c2.w.user_authorized]),
                             Seconds(rate_limit_delay)), TRUE)))
    ELSE Ret(Sleep(w, Seconds(rate_limit_delay)), TRUE)

\* TelegramModule.disconnect
disconnect(w) ==
    IF w._is_connected
    THEN Await(IF w.bot_manager # "None" THEN stop(w) ELSE Ret(w, "None"), LAMBDA s :
         IF s.exc # "none" THEN Raise(s.w, s.exc)
         ELSE Await(ClientDisconnect(s.w), LAMBDA c :
              IF c.r # "ok" THEN Raise(c.w, c.r)
              ELSE Ret([c.w EXCEPT !._is_connected = FALSE, !._is_authorized = FALSE],
                       "None")))
    ELSE Ret(w, "None")

\* TelegramModule.is_connected
is_connected(w) ==
    Await(IF ~w._is_connected THEN connect(w).w ELSE w, LAMBDA w1 :
          Ret(w1, w1._is_connected /\ w1.client_up))

\* TelegramModule.ensure_connected
ensure_connected(w) ==
    IF ~w._is_connected THEN connect(w)
    ELSE Await(is_connected(w), LAMBDA ic :
         IF ~ic.ret THEN connect(ic.w)
         ELSE IF ~ic.w._is_authorized
              THEN Await(ClientCall(ic.w, "client.is_user_authorized"), LAMBDA c :
                   IF c.r # "ok" THEN Raise(c.w, c.r)
                   ELSE Ret([c.w EXCEPT !._is_authorized = c.w.user_authorized],
                            c.w._is_connected /\ c.w.user_authorized))
              ELSE Ret(ic.w, ic.w._is_connected /\ ic.w._is_authorized))

\* TelegramModule.get_entity
get_entity(w, identifier) ==
    Await(ensure_connected(w), LAMBDA en :
    IF en.exc # "none" THEN Raise(en.w, en.exc)
    ELSE IF ~en.ret THEN Raise(en.w, "Exception")
    ELSE Await(ClientCall(en.w, "client.get_entity"), LAMBDA c :
         IF c.r = "ok" THEN Ret(c.w, "Channel")
         ELSE IF c.r = "UsernameNotOccupiedError" THEN Ret(c.w, "None")
         ELSE Raise(c.w, c.r)))

\* TelegramModule.get_participants, its except clauses
get_participants_except(w, e) ==
    IF e = "ChatAdminRequiredError" THEN Ret(w, <<>>)
    ELSE IF e = "FloodWaitError" THEN Ret(Sleep(w, Seconds(FloodSeconds)), <<>>)
    ELSE Ret(w, <<>>)

\* self.client.get_entity(group_link) in get_participants: None is no entity
get_participants_entity(w, group_link) ==
    IF group_link = "None"
    THEN [w |-> Log(w, "client.get_entity", "TypeError"), r |-> "TypeError"]
    ELSE ClientCall(w, "client.get_entity")

\* TelegramModule.get_participants
get_participants(w, group_link) ==
    Await(get_participants_entity(w, group_link), LAMBDA c1 :
    IF c1.r # "ok" THEN get_participants_except(c1.w, c1.r)
    ELSE Await(ClientCall(c1.w, "client.get_participants"), LAMBDA c2 :
         IF c2.r # "ok" THEN get_participants_except(c2.w, c2.r)
         ELSE Ret(Sleep(c2.w, Seconds(rate_limit_delay)), AccountParticipants)))

\* get_participants_with_fallback, `if result and ...`: the name `result` is
\* never bound in the method, so reading it raises NameError
fallback_result(w, monitored) == Raise(Log(w, "result", "NameError"), "NameError")

\* TelegramModule.get_participants_with_fallback
get_participants_with_fallback(w, group) ==
    IF w.bot_manager # "None"
    THEN Await(monitor_group(w, group), LAMBDA m :
         Await(fallback_result(m.w, m.ret), LAMBDA r :
             IF r.exc # "none" THEN get_participants(r.w, group)
             ELSE IF r.ret.bot_accessible THEN Ret(r.w, r.ret.members)
             ELSE get_participants(r.w, group)))
    ELSE get_participants(w, group)

\* self.config_manager in a method of TelegramModule: __init__ binds no such
\* attribute and nothing in the program assigns one, so reading it raises
\* AttributeError
config_manager(w) ==
    Raise(Log(w, "self.config_manager", "AttributeError"), "AttributeError")

\* the scan_result of smart_scan_group
scan_result(members, method_used, success, error) ==
    [members |-> members, method_used |-> method_used, success |-> success,
     error |-> error]

\* smart_scan_group, the scan through the account session
smart_scan_account(w, group_id, account_config) ==
    IF account_config.backup_scan_enabled
    THEN Await(get_participants(w, group_id), LAMBDA p :
         IF p.exc # "none"
         THEN Ret(p.w, scan_result(<<>>, "None", FALSE, p.exc))
         ELSE Ret(p.w, scan_result(p.ret, "account", TRUE, "None")))
    ELSE Ret(w, scan_result(<<>>, "None", FALSE, "None"))

\* TelegramModule.smart_scan_group
smart_scan_group(w, group_id) ==
    Await(config_manager(w), LAMBDA cm :
    IF cm.exc # "none"
    THEN Ret(cm.w, scan_result(<<>>, "None", FALSE, cm.exc))
    ELSE IF cm.ret.bot_config.token # "" /\ cm.w.bot_manager # "None"
         THEN Await(get_group_members(cm.w, group_id), LAMBDA g :
              IF g.exc = "none" /\ g.ret # <<>>
              THEN Ret(g.w, scan_result(g.ret, "bot", TRUE, "None"))
              ELSE smart_scan_account(g.w, group_id, cm.ret.account_config))
         ELSE smart_scan_account(cm.w, group_id, cm.ret.account_config))

\* TelegramModule.join_channel; `channel` is "id" (an int or a str), "Channel"
\* or "User" (an entity that is no channel)
RECURSIVE join_channel(_, _)
join_channel(w, channel) ==
    Await(IF channel = "id" THEN get_entity(w, channel) ELSE Ret(w, channel), LAMBDA g :
    IF g.exc = "FloodWaitError"
    THEN join_channel(Sleep(g.w, Seconds(FloodSeconds)), channel)
    ELSE IF g.exc # "none" THEN Ret(g.w, "None")
    ELSE IF g.ret # "Channel" THEN Ret(g.w, "None")
    ELSE Await(ClientCall(g.w, "JoinChannelRequest"), LAMBDA c :
         IF c.r = "ok" THEN Ret(Sleep(c.w, Seconds(rate_limit_delay)), g.ret)
         ELSE IF c.r = "FloodWaitError"
              THEN join_channel(Sleep(c.w, Seconds(FloodSeconds)), g.ret)
              ELSE Ret(c.w, "None")))

\* TelegramModule.process_participants, its loop over the participants from
\* the i-th on: extract_user_info, then asyncio.sleep(0.1)
RECURSIVE process_each(_, _, _)
process_each(w, participants, i) ==
    IF i > Len(participants) THEN w
    ELSE process_each(Sleep(w, 1), participants, i + 1)

\* TelegramModule.process_participants
RECURSIVE process_participants(_, _)
process_participants(w, group) ==
    Await(ClientCall(w, "client.get_participants"), LAMBDA c :
    IF c.r = "ok"
    THEN Ret(process_each(c.w, AccountParticipants, 1), AccountParticipants)
    ELSE IF c.r = "FloodWaitError"
         THEN process_participants(Sleep(c.w, Seconds(FloodSeconds)), group)
         ELSE Ret(c.w, <<>>))

\* 2 ** attempt
RECURSIVE Pow2(_)
Pow2(n) == IF n = 0 THEN 1 ELSE 2 * Pow2(n - 1)

\* get_entity_safe, the body of its try: the world it leaves and the
\* exception raised in it ("none": the entity was returned)
get_entity_safe_try(w, identifier) ==
    Await(ensure_connected(w), LAMBDA en :
    IF en.exc # "none" THEN [w |-> en.w, e |-> en.exc]
    ELSE IF ~en.ret THEN [w |-> en.w, e |-> "Exception"]
    ELSE Await(ClientCall(en.w, "client.get_entity"), LAMBDA c :
         [w |-> c.w, e |-> IF c.r = "ok" THEN "none" ELSE c.r]))

\* TelegramModule.get_entity_safe, from attempt number `attempt` on
RECURSIVE get_entity_safe_from(_, _, _, _)
get_entity_safe_from(w, identifier, retries, attempt) ==
    IF attempt >= retries THEN Ret(w, "None")
    ELSE Await(get_entity_safe_try(w, identifier), LAMBDA t :
         IF t.e = "none" THEN Ret(Sleep(t.w, Seconds(rate_limit_delay)), "Channel")
         ELSE IF t.e = "FloodWaitError"
              THEN get_entity_safe_from(Sleep(t.w, Seconds(FloodSeconds)), identifier,
                                        retries, attempt + 1)
         ELSE IF t.e = "UsernameNotOccupiedError" THEN Ret(t.w, "None")
         ELSE IF t.e \in RPCErrors \cup {"ValueError"}
              THEN IF attempt = retries - 1 THEN Ret(t.w, "None")
                   ELSE get_entity_safe_from(Sleep(t.w, Seconds(Pow2(attempt))),
                                             identifier, retries, attempt + 1)
         ELSE Raise(t.w, t.e))

\* TelegramModule.get_entity_safe
get_entity_safe(w, identifier, retries) == get_entity_safe_from(w, identifier, retries, 0)

\* TelegramModule.get_full_channel_safe, from attempt number `attempt` on
RECURSIVE get_full_channel_safe_from(_, _, _, _)
get_full_channel_safe_from(w, channel, retries, attempt) ==
    IF attempt >= retries THEN Ret(w, "None")
    ELSE Await(ClientCall(w, "GetFullChannelRequest"), LAMBDA c :
         IF c.r = "ok" THEN Ret(Sleep(c.w, Seconds(rate_limit_delay)), "ChatFull")
         ELSE IF c.r = "FloodWaitError"
              THEN get_full_channel_safe_from(Sleep(c.w, Seconds(FloodSeconds)), channel,
                                              retries, attempt + 1)
         ELSE IF c.r = "ChannelPrivateError" THEN Ret(c.w, "None")
         ELSE IF attempt = retries - 1 THEN Ret(c.w, "None")
              ELSE get_full_channel_safe_from(Sleep(c.w, Seconds(Pow2(attempt))), channel,
                                              retries, attempt + 1))

\* TelegramModule.get_full_channel_safe
get_full_channel_safe(w, channel, retries) ==
    get_full_channel_safe_from(w, channel, retries, 0)

(***************************************************************************)
(* TelegramModule.delegate_task: the scan delegator                        *)
(***************************************************************************)
\* self.bot_manager.is_connected(): class BotManager defines no is_connected
\* (and no __getattr__), so the attribute lookup raises AttributeError
bot_manager_is_connected(w) ==
    Raise(Log(w, "bot_manager.is_connected", "AttributeError"), "AttributeError")

\* delegate_task, its outer except clause and final return
delegate_failed(w, e) ==
    Ret(w, [success |-> FALSE, data |-> <<>>, executor |-> "None", error |-> e])

\* delegate_task, the account branch
delegate_account(w, task_type, target_id) ==
    Await(is_connected(w), LAMBDA ic :
    IF ic.ret /\ task_type = "get_participants"
    THEN Await(get_entity(ic.w, target_id), LAMBDA e :
         IF e.exc # "none" THEN delegate_failed(e.w, e.exc)
         ELSE Await(get_participants(e.w, e.ret), LAMBDA p :
              Ret(p.w, [success |-> TRUE, data |-> <<p.ret>>, executor |-> "account",
                        error |-> "None"])))
    ELSE delegate_failed(ic.w, "Exception"))

\* the test of the bot branch without its `self.bot_manager and` guard
delegate_bot_test_unguarded(w) == bot_manager_is_connected(w)

\* delegate_task, the test of its bot branch:
\* self.bot_manager and await self.bot_manager.is_connected()
delegate_bot_test(w) ==
    IF w.bot_manager # "None" THEN bot_manager_is_connected(w) ELSE Ret(w, FALSE)

\* TelegramModule.delegate_task; result['data'] is <<>> for None and <<list>>
\* for a list
delegate_task(w, task_type, target_id) ==
    Await(delegate_bot_test(w), LAMBDA b :
    IF b.exc # "none" THEN delegate_failed(b.w, b.exc)
    ELSE IF b.ret /\ task_type = "get_participants"
         THEN Await(get_group_members(b.w, target_id), LAMBDA g :
              IF g.exc = "none"
              THEN Ret(g.w, [success |-> TRUE, data |-> <<g.ret>>,
                             executor |-> "bot", error |-> "None"])
              ELSE delegate_account(g.w, task_type, target_id))
         ELSE delegate_account(b.w, task_type, target_id))

(***************************************************************************)
(* The calls.  A call runs from its first statement to its return: the     *)
(* model does not interleave two calls on one session.  The script of a    *)
(* call is the sequence of answers the platform gave it, so a call is      *)
(* taken only with a script it used up.                                    *)
(***************************************************************************)
\* the world a call starts in
World(script, bot_answer) ==
    [_is_connected |-> tm._is_connected, _is_authorized |-> tm._is_authorized,
     bot_manager |-> tm.bot_manager, _connected |-> tm._connected,
     bot_token |-> tm.bot_token, client_up |-> tm.client_up,
     user_authorized |-> tm.user_authorized,
     script |-> script, bot_answer |-> bot_answer, trace |-> <<>>]

\* the objects' fields a call leaves
Fields(w) ==
    [_is_connected |-> w._is_connected, _is_authorized |-> w._is_authorized,
     bot_manager |-> w.bot_manager, _connected |-> w._connected,
     bot_token |-> w.bot_token, client_up |-> w.client_up,
     user_authorized |-> w.user_authorized]

Request(op, script, task_type, bot_answer, channel, retries) ==
    [op |-> op, script |-> script, task_type |-> task_type, bot_answer |-> bot_answer,
     channel |-> channel, retries |-> retries]

NoRequest == Request("none", <<>>, "-", "ok", "-", 0)

NoResult == [ret |-> "None", exc |-> "none"]

\* the call `request` returns with outcome r
Returns(request, r) ==
    /\ pc = "idle"
    /\ r.w.script = <<>>
    /\ pc' = "returned"
    /\ req' = request
    /\ pre' = tm
    /\ tm' = Fields(r.w)
    /\ res' = [ret |-> r.ret, exc |-> r.exc]
    /\ trace' = r.w.trace
    /\ UNCHANGED <<govvars, appvars>>

Connect ==
    \E s \in Scripts :
        Returns(Request("connect", s, "-", "ok", "-", 0), connect(World(s, "ok")))

Disconnect ==
    \E s \in Scripts :
        Returns(Request("disconnect", s, "-", "ok", "-", 0), disconnect(World(s, "ok")))

GetParticipants ==
    \E s \in Scripts :
        Returns(Request("get_participants", s, "-", "ok", "-", 0),
                get_participants(World(s, "ok"), "group"))

JoinChannel ==
    \E s \in Scripts, channel \in {"id", "Channel", "User"} :
        Returns(Request("join_channel", s, "-", "ok", channel, 0),
                join_channel(World(s, "ok"), channel))

ProcessParticipants ==
    \E s \in Scripts :
        Returns(Request("process_participants", s, "-", "ok", "-", 0),
                process_participants(World(s, "ok"), "Channel"))

GetEntitySafe ==
    \E s \in Scripts, retries \in 1..MaxRetries :
        Returns(Request("get_entity_safe", s, "-", "ok", "-", retries),
                get_entity_safe(World(s, "ok"), "id", retries))

GetFullChannelSafe ==
    \E s \in Scripts, retries \in 1..MaxRetries :
        Returns(Request("get_full_channel_safe", s, "-", "ok", "-", retries),
                get_full_channel_safe(World(s, "ok"), "Channel", retries))

GetGroupMembers ==
    \E b \in BotAnswers :
        /\ tm.bot_manager # "None"
        /\ Returns(Request("get_group_members", <<>>, "-", b, "-", 0),
                   get_group_members(World(<<>>, b), "group"))

DelegateTask ==
    \E s \in Scripts, task_type \in {"get_participants", "other"}, b \in BotAnswers :
        Returns(Request("delegate_task", s, task_type, b, "-", 0),
                delegate_task(World(s, b), task_type, "group"))

StartBot ==
    \E s \in Scripts :
        /\ tm.bot_manager # "None"
        /\ Returns(Request("start", s, "-", "ok", "-", 0), start(World(s, "ok")))

StopBot ==
    \E s \in Scripts :
        /\ tm.bot_manager # "None"
        /\ Returns(Request("stop", s, "-", "ok", "-", 0), stop(World(s, "ok")))

EnsureConnected ==
    \E s \in Scripts :
        Returns(Request("ensure_connected", s, "-", "ok", "-", 0),
                ensure_connected(World(s, "ok")))

GetParticipantsWithFallback ==
    \E s \in Scripts, b \in BotAnswers :
        Returns(Request("get_participants_with_fallback", s, "-", b, "-", 0),
                get_participants_with_fallback(World(s, b), "group"))

SmartScanGroup ==
    \E s \in Scripts, b \in BotAnswers :
        Returns(Request("smart_scan_group", s, "-", b, "-", 0),
                smart_scan_group(World(s, b), "group"))

\* the caller takes the result
Return ==
    /\ pc = "returned"
    /\ pc' = "idle"
    /\ req' = NoRequest
    /\ pre' = tm
    /\ res' = NoResult
    /\ trace' = <<>>
    /\ UNCHANGED <<tm, govvars, appvars>>

\* the account client's connection drops
DropConnection ==
    /\ pc = "idle"
    /\ tm.client_up
    /\ tm' = [tm EXCEPT !.client_up = FALSE]
    /\ pre' = tm'
    /\ UNCHANGED <<pc, req, res, trace, govvars, appvars>>

(***************************************************************************)
(* The rate governor: LoadBalancer and the ConfigManager methods that use  *)
(* it.  Delays are in 1e-4 s; the clock is in ticks, TicksPerHour an hour. *)
(***************************************************************************)
Delay(whole, frac) == whole * 10000 + frac

Min(a, b) == IF a < b THEN a ELSE b
Max(a, b) == IF a > b THEN a ELSE b

\* float('inf'), and a finite requests_per_hour
Infinity == [inf |-> TRUE, n |-> 0]
Finite(n) == [inf |-> FALSE, n |-> n]

\* LoadBalancer.__init__ at time t
NewLoadBalancer(t) ==
    [request_count |-> 0, time_window |-> TicksPerHour, window_start |-> t,
     max_requests_per_window |-> Infinity,
     base_delay |-> Delay(2, 0), max_delay |-> Delay(10, 0)]

\* limits.delay_presets of ConfigManager.default_config
delay_presets ==
    [cautious   |-> [base_delay |-> Delay(3, 0), max_delay |-> Delay(15, 0),
                     requests_per_hour |-> 50],
     normal     |-> [base_delay |-> Delay(2, 0), max_delay |-> Delay(10, 0),
                     requests_per_hour |-> 100],
     aggressive |-> [base_delay |-> Delay(1, 0), max_delay |-> Delay(5, 0),
                     requests_per_hour |-> 200]]

\* random.uniform(-0.2, 0.2), in percent
Jitters == {-20, -10, 0, 10, 20}

RECURSIVE IntPow(_, _)
IntPow(b, n) == IF n = 0 THEN 1 ELSE b * IntPow(b, n - 1)

\* floor(a * b / c), computed within 32 bits
MulDiv(a, b, c) == (a \div c) * b + ((a % c) * b) \div c

\* backoff_factor ** (k / 20) for k = 0..19 and backoff_factor = 1.5, in 1e-4
backoff_root ==
    <<10000, 10204, 10413, 10627, 10844, 11066, 11293, 11524, 11760, 12001,
      12247, 12498, 12754, 13015, 13282, 13554, 13831, 14114, 14403, 14698>>

\* base * backoff_factor ** (load_factor * 10) for load_factor = count / limit,
\* the exponent taken in twentieths
backoff_delay(base, count, limit) ==
    Await((200 * count) \div limit, LAMBDA q :
        MulDiv((base * IntPow(3, q \div 20)) \div IntPow(2, q \div 20),
               backoff_root[(q % 20) + 1], 10000))

\* calculate_delay, the reset of the counter for a new time window
window_never_reset(l, t) == l

window_reset(l, t) ==
    IF t - l.window_start > l.time_window
    THEN [l EXCEPT !.request_count = 0, !.window_start = t]
    ELSE l

\* (self.max_requests_per_window or 1)
load_limit(l) ==
    IF l.max_requests_per_window.n = 0 THEN 1 ELSE l.max_requests_per_window.n

\* load_factor < num / den: request_count / inf is 0.0
load_below(l, num, den) ==
    \/ l.max_requests_per_window.inf
    \/ den * l.request_count < num * load_limit(l)

load_at_most(l, num, den) ==
    \/ l.max_requests_per_window.inf
    \/ den * l.request_count <= num * load_limit(l)

\* the four levels of load with their bounds included
tier_delay_inclusive(l) ==
    IF load_at_most(l, 1, 4) THEN l.base_delay
    ELSE IF load_at_most(l, 1, 2) THEN l.base_delay * 2
    ELSE IF load_at_most(l, 3, 4) THEN l.base_delay * 3
    ELSE backoff_delay(l.base_delay, l.request_count, load_limit(l))

\* calculate_delay, the four levels of load
tier_delay(l) ==
    IF load_below(l, 1, 4) THEN l.base_delay
    ELSE IF load_below(l, 1, 2) THEN l.base_delay * 2
    ELSE IF load_below(l, 3, 4) THEN l.base_delay * 3
    ELSE backoff_delay(l.base_delay, l.request_count, load_limit(l))

\* calculate_delay, the jitter, the cap and the floor
final_delay(l, delay, pct) ==
    Max(Min(delay + (pct * delay) \div 100, l.max_delay), Delay(0, 5000))

\* LoadBalancer.calculate_delay at time t with a jitter of pct percent
calculate_delay(l, t, pct) ==
    Await(window_reset(l, t), LAMBDA l1 :
        [lb |-> l1, ret |-> final_delay(l1, tier_delay(l1), pct)])

\* ConfigManager.smart_delay at time t; the sleep takes dt ticks
smart_delay(l, t, pct, dt) ==
    Await(calculate_delay(l, t, pct), LAMBDA c :
        [lb |-> [c.lb EXCEPT !.request_count = @ + 1],
         used |-> c.lb.request_count, delay |-> c.ret, now |-> t + dt])

\* execute_with_rate_limit, its except clause without the cap
backoff_uncapped(l) == [l EXCEPT !.base_delay = (@ * 3) \div 2]

\* execute_with_rate_limit, its except clause
backoff_on_failure(l) ==
    [l EXCEPT !.base_delay = Min((@ * 3) \div 2, l.max_delay)]

\* ConfigManager.execute_with_rate_limit; outcome is what func does
execute_with_rate_limit(l, t, pct, dt, outcome) ==
    Await(smart_delay(l, t, pct, dt), LAMBDA sd :
        IF outcome = "ok"
        THEN [sd EXCEPT !.lb = sd.lb] @@ [ret |-> "result", exc |-> "none"]
        ELSE [sd EXCEPT !.lb = backoff_on_failure(sd.lb)]
                 @@ [ret |-> "None", exc |-> outcome])

\* ConfigManager.set_delay_preset
set_delay_preset(l, cfg, preset_name) ==
    IF cfg = "default"
    THEN [lb |-> l, ret |-> "None", exc |-> "KeyError"]
    ELSE IF preset_name \in DOMAIN delay_presets
         THEN [lb |-> [l EXCEPT
                   !.base_delay = delay_presets[preset_name].base_delay,
                   !.max_delay = delay_presets[preset_name].max_delay,
                   !.max_requests_per_window =
                       Finite(delay_presets[preset_name].requests_per_hour)],
               ret |-> TRUE, exc |-> "none"]
         ELSE [lb |-> l, ret |-> FALSE, exc |-> "none"]

(***************************************************************************)
(* The governor's calls.  gcall keeps what the last call was given, the    *)
(* count its calculate_delay used and what it returned: smart_delay        *)
(* returns nothing and execute_with_rate_limit what func returns, so the   *)
(* delay and its jitter are kept for calculate_delay alone.                *)
(***************************************************************************)
NoCall ==
    [op |-> "none", at |-> 0, jitter |-> 0, used |-> 0, logged |-> 0, mark |-> 0,
     before |-> NewLoadBalancer(0), delay |-> 0, ret |-> "None", exc |-> "none"]

\* the requests made before the window in force began, after a call that
\* left the governor in l
Mark(l) == IF l.window_start # lb.window_start THEN Len(glog) ELSE gmark

GovCall(op, pct, l, used, delay, ret, exc) ==
    [op |-> op, at |-> now, jitter |-> pct, used |-> used, logged |-> Len(glog),
     mark |-> Mark(l), before |-> lb, delay |-> delay, ret |-> ret, exc |-> exc]

CalculateDelay ==
    \E pct \in Jitters :
        LET c == calculate_delay(lb, now, pct) IN
            /\ lb' = c.lb
            /\ gmark' = Mark(c.lb)
            /\ gcall' = GovCall("calculate_delay", pct, c.lb, c.lb.request_count,
                                c.ret, "None", "none")
            /\ UNCHANGED <<config, now, glog, tgvars, appvars>>

SmartDelay ==
    \E pct \in Jitters, dt \in 0..1 :
        LET sd == smart_delay(lb, now, pct, dt) IN
            /\ Len(glog) < MaxLog
            /\ now + dt <= MaxTime
            /\ lb' = sd.lb
            /\ now' = sd.now
            /\ glog' = Append(glog, sd.now)
            /\ gmark' = Mark(sd.lb)
            /\ gcall' = GovCall("smart_delay", 0, sd.lb, sd.used, 0, "None", "none")
            /\ UNCHANGED <<config, tgvars, appvars>>

ExecuteWithRateLimit ==
    \E pct \in Jitters, dt \in 0..1, outcome \in {"ok", "Exception"} :
        LET e == execute_with_rate_limit(lb, now, pct, dt, outcome) IN
            /\ Len(glog) < MaxLog
            /\ now + dt <= MaxTime
            /\ lb' = e.lb
            /\ now' = e.now
            /\ glog' = Append(glog, e.now)
            /\ gmark' = Mark(e.lb)
            /\ gcall' = GovCall("execute_with_rate_limit", 0, e.lb, e.used, 0,
                                e.ret, e.exc)
            /\ UNCHANGED <<config, tgvars, appvars>>

SetDelayPreset ==
    \E preset_name \in DOMAIN delay_presets \cup {"custom"} :
        LET p == set_delay_preset(lb, config, preset_name) IN
            /\ lb' = p.lb
            /\ gcall' = GovCall("set_delay_preset", 0, p.lb, 0, 0, p.ret, p.exc)
            /\ UNCHANGED <<config, now, glog, gmark, tgvars, appvars>>

\* the clock advances
Tick ==
    /\ now < MaxTime
    /\ now' = now + 1
    /\ UNCHANGED <<lb, config, glog, gmark, gcall, tgvars, appvars>>

(***************************************************************************)
(* MainWindow (modules/gui.py): the account scan and the connection check. *)
(* The two are asyncio tasks of one event loop: a task runs from one await *)
(* to the next, and the buttons' slots and the other task run in between.  *)
(* An action is the code between two awaits; scan.pc and chk.pc name the   *)
(* await a task is suspended in.  What the account session and the         *)
(* database answer is an input of the step that resumes the task.          *)
(***************************************************************************)
\* MainWindow.groups_list: the groups loaded for the scan
groups_list == [g \in 1..NumGroups |-> g]

\* what telegram_module.get_participants returns for a group: neighbouring
\* groups share a member
participants_of(group) == [i \in 1..GroupSize |-> group + i - 1]

\* the scan before its first run, the buttons of a scan hidden
NoScan ==
    [pc |-> "idle", index |-> 0, participant_index |-> 0,
     stop_flag_accounts |-> FALSE, is_paused_accounts |-> FALSE,
     accounts_table |-> <<>>, accounts_count |-> 0, max_accounts |-> MaxAccounts,
     status_label |-> "", stop_button_visible |-> FALSE,
     pause_button_visible |-> FALSE, tg_connected |-> FALSE,
     fetched |-> 0, started |-> 0, upserts |-> 0,
     groups_begun |-> <<>>, begun |-> <<>>,
     at_stop |-> [pc |-> "idle", fetched |-> 0, started |-> 0],
     search_button_visible |-> TRUE,
     old |-> [pc |-> "none", index |-> 0, participant_index |-> 0]]

\* the connection check before its first run; the account session is not
\* connected
NoCheck == [pc |-> "idle", _check_lock |-> FALSE, _is_connected |-> FALSE,
            is_connected |-> FALSE, stage |-> 0]

\* the `finally` of search_accounts_in_groups
scan_finally(s) ==
    [s EXCEPT !.pc = "done", !.stop_button_visible = FALSE,
              !.pause_button_visible = FALSE, !.search_button_visible = TRUE]

\* the statement after the loop over the groups
search_completed(s) == scan_finally([s EXCEPT !.status_label = "search_completed"])

\* from start_processing to the await of get_entity
process_group(s) ==
    [s EXCEPT !.status_label = "processing_group", !.pc = "get_entity",
              !.groups_begun = Append(@, s.index)]

\* the head of the loop over the groups, for the group at `index` (from 1)
next_group(s, index) ==
    IF index > NumGroups THEN search_completed(s)
    ELSE IF s.stop_flag_accounts THEN search_completed(s)
    ELSE IF s.is_paused_accounts
         THEN [s EXCEPT !.index = index, !.pc = "group_paused"]
         ELSE process_group([s EXCEPT !.index = index])

\* the pause loop of a group after its sleep: `break` leaves the pause loop
group_resumed(s) ==
    IF s.stop_flag_accounts THEN process_group(s)
    ELSE IF s.is_paused_accounts THEN s
    ELSE process_group(s)

\* `continue` of the loop over the groups, through its `finally`
continue_group(s) == next_group(s, s.index + 1)

\* after the loop over the participants: setValue and the await of sleep(0.1)
group_done(s) == [s EXCEPT !.pc = "group_sleep"]

\* from the limit check of a participant to the await of the first upsert_user
process_participant(s) ==
    IF s.accounts_count >= s.max_accounts
    THEN scan_finally([s EXCEPT !.status_label = "limit_reached"])
    ELSE [s EXCEPT !.status_label = "processing_group", !.pc = "upsert_user",
                   !.started = @ + 1, !.upserts = @ + 1,
                   !.begun = Append(@, <<s.index, s.participant_index>>)]

\* a head of the loop over the participants without its pause loop
next_participant_unpaused(s, i) ==
    IF i > GroupSize THEN group_done(s)
    ELSE IF s.stop_flag_accounts THEN group_done(s)
    ELSE process_participant([s EXCEPT !.participant_index = i])

\* the head of the loop over the participants, for the one at `i` (from 1)
next_participant(s, i) ==
    IF i > GroupSize THEN group_done(s)
    ELSE IF s.stop_flag_accounts THEN group_done(s)
    ELSE IF s.is_paused_accounts
         THEN [s EXCEPT !.participant_index = i, !.pc = "participant_paused"]
         ELSE process_participant([s EXCEPT !.participant_index = i])

\* the pause loop of a participant after its sleep
participant_resumed(s) ==
    IF s.stop_flag_accounts THEN process_participant(s)
    ELSE IF s.is_paused_accounts THEN s
    ELSE process_participant(s)

\* the participant being processed
participant(s) == participants_of(groups_list[s.index])[s.participant_index]

\* after the first upsert_user: the table is looked up
upserted(s) ==
    IF \A row \in DOMAIN s.accounts_table : s.accounts_table[row] # participant(s)
    THEN IF s.accounts_count < s.max_accounts
         THEN [s EXCEPT !.pc = "upsert_user_again", !.upserts = @ + 1]
         ELSE group_done(s)
    ELSE [s EXCEPT !.pc = "participant_sleep"]

\* MainWindow.add_account_to_table, and the await of sleep(0.01)
add_account_to_table(s) ==
    [s EXCEPT !.accounts_table = Append(@, participant(s)),
              !.accounts_count = @ + 1, !.pc = "participant_sleep"]

\* MainWindow.search_accounts_in_groups up to its first await
search_accounts_in_groups(s) ==
    IF ~s.tg_connected THEN s
    ELSE next_group([s EXCEPT !.is_paused_accounts = FALSE,
                              !.stop_flag_accounts = FALSE,
                              !.pause_button_visible = TRUE,
                              !.stop_button_visible = TRUE,
                              !.search_button_visible = FALSE,
                              !.accounts_count = 0, !.accounts_table = <<>>,
                              !.fetched = 0, !.started = 0, !.upserts = 0,
                              !.groups_begun = <<>>, !.begun = <<>>,
                              !.at_stop = [pc |-> "idle", fetched |-> 0,
                                           started |-> 0]], 1)

\* MainWindow.stop_accounts_process; at_stop keeps what the scan had fetched
\* and begun when the flag was set
stop_accounts_process(s) ==
    [s EXCEPT !.stop_flag_accounts = TRUE, !.pause_button_visible = FALSE,
              !.stop_button_visible = FALSE,
              !.status_label = "accounts_process_stopped",
              !.search_button_visible = TRUE,
              !.at_stop = [pc |-> s.pc, fetched |-> s.fetched,
                           started |-> s.started]]

\* MainWindow.pause_accounts_process
pause_accounts_process(s) ==
    [s EXCEPT !.is_paused_accounts = ~@,
              !.status_label = IF s.is_paused_accounts
                               THEN "accounts_process_resumed"
                               ELSE "accounts_process_paused"]

\* the search button is pressed
SearchAccounts ==
    /\ scan.pc \in {"idle", "done"}
    /\ scan.tg_connected
    /\ scan' = search_accounts_in_groups(scan)
    /\ UNCHANGED <<chk, tgvars, govvars, othervars, restvars>>

\* the stop button is pressed
StopAccounts ==
    /\ scan.stop_button_visible
    /\ scan' = stop_accounts_process(scan)
    /\ UNCHANGED <<chk, tgvars, govvars, othervars, restvars>>

\* the pause button is pressed
PauseAccounts ==
    /\ scan.pause_button_visible
    /\ scan' = pause_accounts_process(scan)
    /\ UNCHANGED <<chk, tgvars, govvars, othervars, restvars>>

\* the sleep of a pause loop ends
PauseSleepEnds ==
    /\ scan.pc \in {"group_paused", "participant_paused"}
    /\ scan' = IF scan.pc = "group_paused" THEN group_resumed(scan)
               ELSE participant_resumed(scan)
    /\ UNCHANGED <<chk, tgvars, govvars, othervars, restvars>>

\* telegram_module.get_entity(group) returns an entity or None, or raises
GetEntityReturns ==
    /\ scan.pc = "get_entity"
    /\ \E answer \in {"entity", "None", "raise"} :
           scan' = IF answer = "entity" THEN [scan EXCEPT !.pc = "can_access_participants"]
                   ELSE continue_group(scan)
    /\ UNCHANGED <<chk, tgvars, govvars, othervars, restvars>>

\* telegram_module.can_access_participants returns; when it allows, the
\* participant list of the group is requested
CanAccessReturns ==
    /\ scan.pc = "can_access_participants"
    /\ \E can_access \in BOOLEAN :
           scan' = IF can_access
                   THEN [scan EXCEPT !.pc = "get_participants", !.fetched = @ + 1]
                   ELSE continue_group([scan EXCEPT !.status_label = "cannot_access_group"])
    /\ UNCHANGED <<chk, tgvars, govvars, othervars, restvars>>

\* telegram_module.get_participants returns the list, or raises
GetParticipantsReturns ==
    /\ scan.pc = "get_participants"
    /\ \E answer \in {"list", "raise"} :
           scan' = IF answer = "list" THEN next_participant(scan, 1)
                   ELSE continue_group(scan)
    /\ UNCHANGED <<chk, tgvars, govvars, othervars, restvars>>

\* db_module.upsert_user returns, or raises
UpsertUserReturns ==
    /\ scan.pc \in {"upsert_user", "upsert_user_again"}
    /\ \E answer \in {"ok", "raise"} :
           scan' = IF answer = "raise" THEN continue_group(scan)
                   ELSE IF scan.pc = "upsert_user" THEN upserted(scan)
                   ELSE add_account_to_table(scan)
    /\ UNCHANGED <<chk, tgvars, govvars, othervars, restvars>>

\* a sleep of the scan outside its pause loops ends
ScanSleepEnds ==
    /\ scan.pc \in {"participant_sleep", "group_sleep"}
    /\ scan' = IF scan.pc = "participant_sleep"
               THEN next_participant(scan, scan.participant_index + 1)
               ELSE continue_group(scan)
    /\ UNCHANGED <<chk, tgvars, govvars, othervars, restvars>>

\* the scan is suspended in an await
ScanSuspended(s) ==
    s.pc \in {"group_paused", "participant_paused", "get_entity",
              "can_access_participants", "get_participants", "upsert_user",
              "upsert_user_again", "participant_sleep", "group_sleep"}

\* a scan that was started while an earlier scan had not finished: both run
\* on the same window.  scan.old holds where the earlier scan is, scan.pc,
\* scan.index and scan.participant_index where the later one is; with_old
\* exchanges the two
with_old(s) ==
    [s EXCEPT !.pc = s.old.pc, !.index = s.old.index,
              !.participant_index = s.old.participant_index,
              !.old = [pc |-> s.pc, index |-> s.index,
                       participant_index |-> s.participant_index]]

\* the await a scan is suspended in returns `answer` ("raise": it raises)
scan_resumes(s, answer) ==
    IF s.pc = "group_paused" THEN group_resumed(s)
    ELSE IF s.pc = "participant_paused" THEN participant_resumed(s)
    ELSE IF s.pc = "get_entity"
         THEN IF answer = "ok" THEN [s EXCEPT !.pc = "can_access_participants"]
              ELSE continue_group(s)
    ELSE IF s.pc = "can_access_participants"
         THEN IF answer = "ok"
              THEN [s EXCEPT !.pc = "get_participants", !.fetched = @ + 1]
              ELSE continue_group([s EXCEPT !.status_label = "cannot_access_group"])
    ELSE IF s.pc = "get_participants"
         THEN IF answer = "ok" THEN next_participant(s, 1)
              ELSE continue_group(s)
    ELSE IF s.pc = "upsert_user"
         THEN IF answer = "ok" THEN upserted(s) ELSE continue_group(s)
    ELSE IF s.pc = "upsert_user_again"
         THEN IF answer = "ok" THEN add_account_to_table(s)
              ELSE continue_group(s)
    ELSE IF s.pc = "participant_sleep"
         THEN next_participant(s, s.participant_index + 1)
    ELSE continue_group(s)

\* the search button, shown again by stop_accounts_process, is pressed while
\* the stopped scan has not finished
RestartAccounts ==
    /\ ScanSuspended(scan)
    /\ scan.search_button_visible
    /\ scan.old.pc \in {"none", "done"}
    /\ scan' = search_accounts_in_groups(
                   [scan EXCEPT !.old = [pc |-> scan.pc, index |-> scan.index,
                                         participant_index |->
                                             scan.participant_index]])
    /\ UNCHANGED <<chk, tgvars, govvars, othervars, restvars>>

\* the await the earlier scan is suspended in returns or raises
EarlierScanResumes ==
    /\ ScanSuspended(with_old(scan))
    /\ \E answer \in {"ok", "raise"} :
           scan' = with_old(scan_resumes(with_old(scan), answer))
    /\ UNCHANGED <<chk, tgvars, govvars, othervars, restvars>>

\* TelegramModule.is_user_authorized up to its first await, in a check whose
\* is_connected() has returned
is_user_authorized(c) ==
    IF c._is_connected THEN [c EXCEPT !.pc = "client.is_user_authorized"]
    ELSE [c EXCEPT !.pc = "connect", !.stage = 2]

\* MainWindow._safe_check_connections up to its first await
_safe_check_connections(c) ==
    IF c._is_connected
    THEN is_user_authorized([c EXCEPT !._check_lock = TRUE, !.is_connected = TRUE])
    ELSE [c EXCEPT !._check_lock = TRUE, !.pc = "connect", !.stage = 1]

\* the end of _safe_check_connections: the lock is released
check_done(c) == [c EXCEPT !.pc = "idle", !._check_lock = FALSE, !.stage = 0]

\* MainWindow._schedule_check: the timer fires
ScheduleCheck ==
    /\ ~chk._check_lock
    /\ chk' = _safe_check_connections(chk)
    /\ UNCHANGED <<scan, tgvars, govvars, othervars, restvars>>

\* TelegramModule.connect, awaited by is_connected(), returns or raises
CheckConnectReturns ==
    /\ chk.pc = "connect"
    /\ \E connected \in BOOLEAN :
           LET c == [chk EXCEPT !._is_connected = connected] IN
               /\ chk' = IF chk.stage = 1
                         THEN is_user_authorized([c EXCEPT !.is_connected = connected])
                         ELSE IF connected
                              THEN [c EXCEPT !.pc = "client.is_user_authorized"]
                              ELSE [c EXCEPT !.pc = "db.is_connected"]
               /\ scan' = IF chk.stage = 2 /\ ~connected
                          THEN [scan EXCEPT !.tg_connected = FALSE]
                          ELSE scan
    /\ UNCHANGED <<tgvars, govvars, othervars, restvars>>

\* client.is_user_authorized() returns: tg_connected is set
CheckAuthorizedReturns ==
    /\ chk.pc = "client.is_user_authorized"
    /\ \E is_authorized \in BOOLEAN :
           /\ scan' = [scan EXCEPT !.tg_connected = chk.is_connected /\ is_authorized]
           /\ chk' = [chk EXCEPT !.pc = "db.is_connected"]
    /\ UNCHANGED <<tgvars, govvars, othervars, restvars>>

\* db_module.is_connected() returns; the bot's status is not asked for
\* without a bot manager
CheckDatabaseReturns ==
    /\ chk.pc = "db.is_connected"
    /\ chk' = check_done(chk)
    /\ UNCHANGED <<scan, tgvars, govvars, othervars, restvars>>

(***************************************************************************)
(* DatabaseModule (modules/mdb1_database.py) and                           *)
(* MainWindow.fetch_and_store_participants.  A table is the sequence of    *)
(* its rows in the order they were inserted; the time of a statement is    *)
(* the number of the scan it belongs to.                                   *)
(***************************************************************************)
\* the first names a user is seen with
first_names == {"old", "new"}

\* the group that is scanned, and another group the users are members of
scanned_group == 1
other_group == 2

\* the primary key of a row of participants, and of a row of users
participant_key(row) == <<row.user_id, row.group_id>>
user_key(row) == row.id

\* the row an upsert_participant writes at time t
participant_row(participant_info, t) ==
    [user_id |-> participant_info.user_id, group_id |-> participant_info.group_id,
     first_name |-> participant_info.first_name, last_updated |-> t]

\* the row an upsert_user writes at time t
user_row(user_info, t) ==
    [id |-> user_info.id, first_name |-> user_info.first_name, last_updated |-> t]

\* upsert_participant as a plain INSERT into a table without its primary key
upsert_participant_insert(table, participant_info, t, outcome) ==
    IF outcome = "ok" THEN Append(table, participant_row(participant_info, t))
    ELSE table

\* DatabaseModule.upsert_participant at time t: INSERT ... ON DUPLICATE KEY
\* UPDATE ..., last_updated = CURRENT_TIMESTAMP(); an error of the statement
\* is logged and not raised
upsert_participant(table, participant_info, t, outcome) ==
    IF outcome # "ok" THEN table
    ELSE IF \A i \in DOMAIN table :
                participant_key(table[i]) # participant_key(participant_row(participant_info, t))
         THEN Append(table, participant_row(participant_info, t))
         ELSE [i \in DOMAIN table |->
                  IF participant_key(table[i]) = participant_key(participant_row(participant_info, t))
                  THEN participant_row(participant_info, t)
                  ELSE table[i]]

\* DatabaseModule.upsert_user at time t: the same statement on users; an
\* error of the statement is raised to the caller
upsert_user(table, user_info, t, outcome) ==
    IF outcome # "ok" THEN table
    ELSE IF \A i \in DOMAIN table : user_key(table[i]) # user_info.id
         THEN Append(table, user_row(user_info, t))
         ELSE [i \in DOMAIN table |->
                  IF user_key(table[i]) = user_info.id THEN user_row(user_info, t)
                  ELSE table[i]]

\* what telegram_module.get_participants can return for the scanned group:
\* its first n users, each with one of the first names
ParticipantLists ==
    UNION {[1..n -> first_names] : n \in 1..NumUsers}

\* participant_info of the user at position i of the list
participant_info(names, i) ==
    [user_id |-> i, group_id |-> scanned_group, first_name |-> names[i]]

\* the database before the scans: every user is a participant of the other
\* group
NoStore ==
    [pc |-> "idle", scans |-> 0,
     participants |-> [i \in 1..NumUsers |->
                          [user_id |-> i, group_id |-> other_group,
                           first_name |-> "old", last_updated |-> 0]],
     users |-> <<>>,
     returned |-> <<>>, issued |-> <<>>,
     executed |-> [i \in 1..NumUsers |-> [first_name |-> "none", times |-> 0]]]

\* fetch_and_store_participants(group_link) begins: get_participants and
\* client.get_entity return, or one of them raises
FetchAndStoreParticipants ==
    /\ store.pc = "idle"
    /\ store.scans < MaxScans
    /\ \/ \E names \in ParticipantLists :
             store' = [store EXCEPT !.pc = "storing", !.returned = names,
                                    !.issued = <<>>]
       \/ store' = [store EXCEPT !.scans = @ + 1]
    /\ UNCHANGED <<tgvars, govvars, guivars, disk, boot>>

\* one turn of its loop: upsert_participant for the next user of the list
StoreParticipant ==
    /\ store.pc = "storing"
    /\ Len(store.issued) < Len(store.returned)
    /\ \E outcome \in {"ok", "error"} :
           LET i == Len(store.issued) + 1 IN
               store' = [store EXCEPT
                   !.participants = upsert_participant(@,
                        participant_info(store.returned, i), store.scans + 1, outcome),
                   !.issued = Append(@, i),
                   !.executed[i] = IF outcome = "ok"
                                   THEN [first_name |-> store.returned[i],
                                         times |-> @.times + 1]
                                   ELSE @]
    /\ UNCHANGED <<tgvars, govvars, guivars, disk, boot>>

\* the loop is over: fetch_and_store_participants returns
FetchAndStoreReturns ==
    /\ store.pc = "storing"
    /\ Len(store.issued) = Len(store.returned)
    /\ store' = [store EXCEPT !.pc = "idle", !.scans = @ + 1, !.returned = <<>>,
                              !.issued = <<>>]
    /\ UNCHANGED <<tgvars, govvars, guivars, disk, boot>>

\* the users table after an account scan has stored every user once
users_stored == [i \in 1..NumUsers |-> user_row([id |-> i, first_name |-> "old"], 0)]

(***************************************************************************)
(* ConfigManager.load_config and save_config, and the configuration file.  *)
(* A section of a configuration is absent, holds its default values or     *)
(* holds values of the user's; the telegram section is kept by its fields. *)
(* save_config advances one system call at a time, so that the file is     *)
(* seen between the calls; each call succeeds or fails.                    *)
(***************************************************************************)
\* what telegram.api_id can hold in a file: no such key, '', blanks, a string
\* of digits, another string, an integer, a float, a value of another type
ApiIds == {"absent", "empty", "blank", "digits", "text", "int", "float", "other"}

\* what telegram.api_hash and phone_number can hold: no such key, the empty
\* string of the defaults, another string, a number
ApiHashes == {"absent", "empty", "str", "number"}

SectionValues == {"absent", "default", "custom"}

\* the configurations a file can hold; a file without a telegram section
\* has none of its keys
Configs ==
    {cfg \in [telegram : [present : BOOLEAN, api_id : ApiIds, api_hash : ApiHashes],
              database : SectionValues, limits : SectionValues] :
        ~cfg.telegram.present =>
            cfg.telegram.api_id = "absent" /\ cfg.telegram.api_hash = "absent"}

\* ConfigManager.get_default_config
get_default_config ==
    [telegram |-> [present |-> TRUE, api_id |-> "empty", api_hash |-> "empty"],
     database |-> "default", limits |-> "default"]

\* the file: missing, holding a whole configuration, or holding text that
\* is no JSON document
Missing == [state |-> "missing", config |-> get_default_config]
Complete(cfg) == [state |-> "complete", config |-> cfg]
Partial == [state |-> "partial", config |-> get_default_config]

\* load_config: the sections the file has not are taken from the defaults
fill_sections(cfg) ==
    [telegram |-> IF cfg.telegram.present THEN cfg.telegram
                  ELSE get_default_config.telegram,
     database |-> IF cfg.database = "absent" THEN "default" ELSE cfg.database,
     limits |-> IF cfg.limits = "absent" THEN "default" ELSE cfg.limits]

\* load_config: api_id becomes an int, api_hash and phone_number strings; a
\* ValueError, a TypeError or a KeyError on the way gives the defaults
validate_telegram(cfg) ==
    IF cfg.telegram.api_id \in {"absent", "empty", "blank", "text", "other"}
    THEN get_default_config
    ELSE IF cfg.telegram.api_hash = "absent"
    THEN get_default_config
    ELSE [cfg EXCEPT !.telegram.api_id = "int",
                     !.telegram.api_hash = IF @ = "number" THEN "str" ELSE @]

\* ConfigManager.load_config up to its save_config: the configuration in
\* memory for the file found
load_config(file) ==
    IF file.state = "missing" THEN get_default_config
    ELSE IF file.state # "complete" THEN get_default_config
    ELSE validate_telegram(fill_sections(file.config))

\* the configuration manager before load_config, for a file on the disk
NewConfigManager(file) ==
    [pc |-> "idle", caller |-> "none", config |-> get_default_config,
     file |-> file, temp |-> "none", left_behind |-> FALSE,
     removal |-> "none", result |-> "none", previous |-> file, loaded |-> file]

\* save_config is entered: the file before it is remembered; temp is the
\* temporary file of this save, left_behind says that an earlier save has
\* left its own in the directory
enter_save_config(d, caller) ==
    [d EXCEPT !.pc = "makedirs", !.caller = caller, !.result = "none",
              !.removal = "none", !.previous = d.file, !.temp = "none",
              !.left_behind = @ \/ d.temp # "none"]

\* save_config is left: load_config logs what save_config raises
leave_save_config(d, outcome) ==
    [d EXCEPT !.pc = "idle",
              !.result = IF outcome = "raised" /\ d.caller = "load_config"
                         THEN "logged" ELSE outcome]

\* json.dump, flush and fsync on the configuration file itself
write_in_place(d, outcome) ==
    IF outcome = "ok"
    THEN [d EXCEPT !.file = Complete(d.config), !.pc = "replace"]
    ELSE [d EXCEPT !.file = Partial, !.pc = "unlink"]

\* save_config: json.dump, flush and fsync on the temporary file
write_temp(d, outcome) ==
    IF outcome = "ok" THEN [d EXCEPT !.temp = "complete", !.pc = "replace"]
    ELSE IF outcome = "nothing written" THEN [d EXCEPT !.pc = "unlink"]
    ELSE [d EXCEPT !.temp = "partial", !.pc = "unlink"]

\* save_config: os.replace of the configuration file by the temporary file
replace_config(d, outcome) ==
    IF outcome = "ok"
    THEN leave_save_config([d EXCEPT !.file = Complete(d.config), !.temp = "none"],
                           "saved")
    ELSE [d EXCEPT !.pc = "unlink"]

\* save_config's handler: the temporary file is removed, an error of the
\* removal is passed over, and the exception is raised again
unlink_temp(d, outcome) ==
    leave_save_config([d EXCEPT !.temp = IF outcome = "ok" THEN "none" ELSE @,
                                !.removal = outcome],
                      "raised")

\* ConfigManager.__init__ or a reload: load_config reads the file and enters
\* save_config
LoadConfig ==
    /\ disk.pc = "idle"
    /\ disk' = enter_save_config([disk EXCEPT !.config = load_config(disk.file),
                                              !.loaded = disk.file], "load_config")
    /\ UNCHANGED <<tgvars, govvars, guivars, store, boot>>

\* set_database_config or set_telegram_config changes the configuration in
\* memory
SetConfig ==
    /\ disk.pc = "idle"
    /\ \/ disk' = [disk EXCEPT !.config.database = "custom", !.caller = "none",
                                !.result = "none"]
       \/ disk' = [disk EXCEPT !.config.telegram =
                       [present |-> TRUE, api_id |-> "int", api_hash |-> "str"],
                                !.caller = "none", !.result = "none"]
    /\ UNCHANGED <<tgvars, govvars, guivars, store, boot>>

\* save_config is called
SaveConfig ==
    /\ disk.pc = "idle"
    /\ disk' = enter_save_config(disk, "save_config")
    /\ UNCHANGED <<tgvars, govvars, guivars, store, boot>>

\* os.makedirs, outside the try
Makedirs ==
    /\ disk.pc = "makedirs"
    /\ \E outcome \in {"ok", "error"} :
           disk' = IF outcome = "ok" THEN [disk EXCEPT !.pc = "mkstemp"]
                   ELSE leave_save_config(disk, "raised")
    /\ UNCHANGED <<tgvars, govvars, guivars, store, boot>>

\* tempfile.mkstemp: without a temporary file the handler has none to remove
Mkstemp ==
    /\ disk.pc = "mkstemp"
    /\ \E outcome \in {"ok", "error"} :
           disk' = IF outcome = "ok" THEN [disk EXCEPT !.temp = "empty", !.pc = "write"]
                   ELSE leave_save_config(disk, "raised")
    /\ UNCHANGED <<tgvars, govvars, guivars, store, boot>>

\* the write of the temporary file ends: written whole, failed before its
\* first byte, or failed on the way
WriteTemp ==
    /\ disk.pc = "write"
    /\ \E outcome \in {"ok", "nothing written", "error"} :
           disk' = write_temp(disk, outcome)
    /\ UNCHANGED <<tgvars, govvars, guivars, store, boot>>

\* os.replace returns or raises
ReplaceConfig ==
    /\ disk.pc = "replace"
    /\ \E outcome \in {"ok", "error"} : disk' = replace_config(disk, outcome)
    /\ UNCHANGED <<tgvars, govvars, guivars, store, boot>>

\* os.unlink in the handler returns or raises
UnlinkTemp ==
    /\ disk.pc = "unlink"
    /\ \E outcome \in {"ok", "error"} : disk' = unlink_temp(disk, outcome)
    /\ UNCHANGED <<tgvars, govvars, guivars, store, boot>>

(***************************************************************************)
(* main (main.py): the start of the application, from the configuration    *)
(* to the event loop.  What is on the disk, whether the database server    *)
(* answers, whether a bot token is configured and what the calls into the  *)
(* libraries do are inputs.                                                *)
(***************************************************************************)
\* the inputs of a start
Files == {Missing, Partial} \cup {Complete(cfg) : cfg \in Configs}

\* the process before main: nothing loaded, nothing created, nothing shown
NewProcess(file, db_reachable, token) ==
    [pc |-> "main", file |-> file, db_reachable |-> db_reachable, token |-> token,
     config |-> get_default_config, pool |-> FALSE, telegram_module |-> FALSE,
     bot_connected |-> FALSE, message |-> "none", cleanup |-> "none",
     exit_code |-> -1, window_shown |-> FALSE]

\* no process
NoProcess == NewProcess(Missing, FALSE, "None")

\* sys.exit(code)
exit(b, code) == [b EXCEPT !.pc = "exited", !.exit_code = code]

\* the `except Exception` of main: the message box, cleanup() on the loop
\* (its arguments are unbound before the modules are created), sys.exit(1)
startup_failed(b) ==
    exit([b EXCEPT !.message = "Critical Error",
                   !.cleanup = IF b.telegram_module THEN "run" ELSE "UnboundLocalError",
                   !.bot_connected = IF b.telegram_module THEN FALSE ELSE @], 1)

\* ConfigManager.is_config_complete: a required field that is empty is set
\* to its default, and the configuration saved when one was; always True
config_modified(cfg) ==
    \/ cfg.telegram.api_id = "empty"
    \/ cfg.telegram.api_hash = "empty"
    \/ cfg.database = "default"

is_config_complete(cfg) == TRUE

\* main from ConfigManager() to the check of the configuration
load_and_check(b, save) ==
    Await([b EXCEPT !.config = load_config(b.file)], LAMBDA c :
        IF config_modified(c.config) /\ save = "error" THEN startup_failed(c)
        ELSE IF ~is_config_complete(c.config)
        THEN exit([c EXCEPT !.message = "Configuration is incomplete"], 1)
        ELSE [c EXCEPT !.pc = "modules"])

\* main: DatabaseModule(...) and TelegramModule(api_id=int(...), ...);
\* int('') raises, and TelegramClient accepts or refuses its arguments
create_modules(b, client) ==
    IF b.config.telegram.api_id # "int" THEN startup_failed(b)
    ELSE IF client = "error" THEN startup_failed(b)
    ELSE [b EXCEPT !.telegram_module = TRUE, !.pc = "bot"]

\* main: with a bot token, BotManager(...).start() and check_status(); a
\* failure is logged and the bot given up
initialize_bot(b, started) ==
    IF b.token = "token" /\ started = "ok"
    THEN [b EXCEPT !.bot_connected = TRUE, !.pc = "database"]
    ELSE [b EXCEPT !.pc = "database"]

\* DatabaseModule.is_connected: without a pool, False; main creates none
db_is_connected(b) == b.pool /\ b.db_reachable

\* main.initialize_database without its check of the connection
initialize_database_unchecked(b) ==
    [b EXCEPT !.pc = "running", !.window_shown = TRUE]

\* main.initialize_database, and for a connected database the window and
\* the event loop
initialize_database(b) ==
    IF db_is_connected(b)
    THEN [b EXCEPT !.pc = "running", !.window_shown = TRUE]
    ELSE exit([b EXCEPT !.message = "Failed to connect to the database."], 1)

\* main up to the check of the configuration
LoadAndCheck ==
    /\ boot.pc = "main"
    /\ \E save \in {"ok", "error"} : boot' = load_and_check(boot, save)
    /\ UNCHANGED <<tgvars, govvars, guivars, store, disk>>

\* main creates the modules
CreateModules ==
    /\ boot.pc = "modules"
    /\ \E client \in {"ok", "error"} : boot' = create_modules(boot, client)
    /\ UNCHANGED <<tgvars, govvars, guivars, store, disk>>

\* main starts the bot
InitializeBot ==
    /\ boot.pc = "bot"
    /\ \E started \in {"ok", "error"} : boot' = initialize_bot(boot, started)
    /\ UNCHANGED <<tgvars, govvars, guivars, store, disk>>

\* main checks the database and, connected, shows the window and runs the
\* event loop
InitializeDatabase ==
    /\ boot.pc = "database"
    /\ boot' = initialize_database(boot)
    /\ UNCHANGED <<tgvars, govvars, guivars, store, disk>>

(***************************************************************************)
(* BotManager, one call at a time and step by step: the task is suspended  *)
(* in the call of the bot client that bot.pc names.  bot.status and        *)
(* bot.last_error are config['bot'] of the ConfigManager the BotManager    *)
(* was given, bot.link is what bot.is_connected() answers.  awaited,       *)
(* failed, recorded and was_connected describe the call in progress: the   *)
(* awaits that have succeeded, whether a step has failed, the status the   *)
(* call has recorded, and _connected at its start.                         *)
(***************************************************************************)
\* what get_me answers: a bot account, a user account, None, or an error
Accounts == {"bot", "user", "None"}

BotErrors == {"ConnectionError", "FloodWaitError"}

\* BotManager(...), with set_config_manager when `manager` is set
NewBot(manager) ==
    [pc |-> "idle", op |-> "none", _connected |-> FALSE,
     config_manager |-> manager, status |-> "unknown",
     last_error |-> "None", link |-> FALSE, raised |-> "none", ok |-> FALSE,
     awaited |-> <<>>, failed |-> FALSE, recorded |-> "none",
     was_connected |-> FALSE]

NoBot == NewBot(FALSE)

\* a method of the BotManager is called
bot_called(b, op) ==
    [b EXCEPT !.op = op, !.raised = "none", !.ok = FALSE, !.awaited = <<>>,
              !.failed = FALSE, !.recorded = "none",
              !.was_connected = b._connected]

\* the method returns
bot_returns(b) == [b EXCEPT !.pc = "returned"]

\* the method raises e
bot_raises(b, e) == [b EXCEPT !.pc = "returned", !.raised = e]

\* `if self.config_manager: self.config_manager.update_bot_status(...)`;
\* update_bot_status writes config['bot'] and catches what save_config raises
update_bot_status(b, status, error) ==
    IF b.config_manager
    THEN [b EXCEPT !.status = status, !.last_error = error,
                   !.recorded = status]
    ELSE b

\* BotManager.start, its except clause
start_except(b, e) ==
    bot_raises(update_bot_status([b EXCEPT !._connected = FALSE,
                                           !.failed = TRUE], "error", e), e)

\* a start that takes any account get_me returns for a bot
start_unverified(b, me) ==
    bot_returns(update_bot_status(
        [b EXCEPT !._connected = TRUE,
                  !.awaited = Append(@, IF me = "bot" THEN "get_me" ELSE me)],
        "active", "None"))

\* BotManager.start, after get_me has returned `me`
start_verified(b, me) ==
    IF me # "bot" THEN start_except(b, "Exception")
    ELSE bot_returns(update_bot_status(
             [b EXCEPT !._connected = TRUE,
                       !.awaited = Append(@, "get_me")], "active", "None"))

\* BotManager.check_status, its inner except clause
check_status_except(b, e) ==
    bot_returns(update_bot_status([b EXCEPT !.failed = TRUE], "error", e))

\* BotManager.check_status, after get_me has returned `me`
check_status_verified(b, me) ==
    IF me # "bot" THEN check_status_except(b, "Exception")
    ELSE bot_returns(update_bot_status(
             [b EXCEPT !.ok = TRUE, !.awaited = Append(@, "get_me")],
             "active", "None"))

\* BotManager.start is called
BotStart ==
    /\ bot.pc = "idle"
    /\ bot' = IF bot._connected
              THEN bot_returns(bot_called(bot, "start"))
              ELSE [bot_called(bot, "start") EXCEPT !.pc = "start:connect"]
    /\ UNCHANGED besides_bot

\* bot.connect() returns or raises, in start
BotStartConnectReturns ==
    /\ bot.pc = "start:connect"
    /\ \E answer \in {"ok"} \cup BotErrors :
          bot' = IF answer = "ok"
                 THEN [bot EXCEPT !.pc = "start:start", !.link = TRUE,
                                  !.awaited = Append(@, "connect")]
                 ELSE start_except(bot, answer)
    /\ UNCHANGED besides_bot

\* bot.start(bot_token=...) returns or raises
BotTokenStartReturns ==
    /\ bot.pc = "start:start"
    /\ \E answer \in {"ok"} \cup BotErrors :
          bot' = IF answer = "ok"
                 THEN [bot EXCEPT !.pc = "start:get_me",
                                  !.awaited = Append(@, "start")]
                 ELSE start_except(bot, answer)
    /\ UNCHANGED besides_bot

\* bot.get_me() returns or raises, in start
BotStartGetMeReturns ==
    /\ bot.pc = "start:get_me"
    /\ \E answer \in Accounts \cup BotErrors :
          bot' = IF answer \in BotErrors THEN start_except(bot, answer)
                 ELSE start_verified(bot, answer)
    /\ UNCHANGED besides_bot

\* BotManager.check_status is called
BotCheckStatus ==
    /\ bot.pc = "idle"
    /\ bot' = IF ~bot._connected
              THEN bot_returns(bot_called(bot, "check_status"))
              ELSE IF ~bot.link
                   THEN [bot_called(bot, "check_status")
                            EXCEPT !.pc = "check_status:connect"]
                   ELSE [bot_called(bot, "check_status")
                            EXCEPT !.pc = "check_status:get_me"]
    /\ UNCHANGED besides_bot

\* bot.connect() returns or raises, in check_status
BotCheckConnectReturns ==
    /\ bot.pc = "check_status:connect"
    /\ \E answer \in {"ok"} \cup BotErrors :
          bot' = IF answer = "ok"
                 THEN [bot EXCEPT !.pc = "check_status:get_me", !.link = TRUE,
                                  !.awaited = Append(@, "connect")]
                 ELSE check_status_except(bot, answer)
    /\ UNCHANGED besides_bot

\* bot.get_me() returns or raises, in check_status
BotCheckGetMeReturns ==
    /\ bot.pc = "check_status:get_me"
    /\ \E answer \in Accounts \cup BotErrors :
          bot' = IF answer \in BotErrors THEN check_status_except(bot, answer)
                 ELSE check_status_verified(bot, answer)
    /\ UNCHANGED besides_bot

\* BotManager.stop is called
BotStop ==
    /\ bot.pc = "idle"
    /\ bot' = IF bot._connected
              THEN [bot_called(bot, "stop") EXCEPT !.pc = "stop:disconnect"]
              ELSE bot_returns(bot_called(bot, "stop"))
    /\ UNCHANGED besides_bot

\* bot.disconnect() and bot.disconnected return, or one of them raises
BotDisconnectReturns ==
    /\ bot.pc = "stop:disconnect"
    /\ \E answer \in {"ok"} \cup BotErrors :
          bot' = IF answer = "ok"
                 THEN bot_returns([bot EXCEPT !._connected = FALSE,
                                              !.link = FALSE])
                 ELSE bot_raises([bot EXCEPT !.failed = TRUE], answer)
    /\ UNCHANGED besides_bot

\* the caller takes what the method returned or raised
BotReturn ==
    /\ bot.pc = "returned"
    /\ bot' = [bot EXCEPT !.pc = "idle"]
    /\ UNCHANGED besides_bot

\* the connection of the bot client drops
BotLinkDrops ==
    /\ bot.pc = "idle"
    /\ bot.link
    /\ bot' = [bot EXCEPT !.link = FALSE]
    /\ UNCHANGED besides_bot

(***************************************************************************)
(* MainWindow: the tasks that take _task_lock and _check_lock.  Each task  *)
(* is at a position: "wait:..." waiting for a lock, "check" inside         *)
(* _safe_check_connections with _check_lock held, suspended in the calls   *)
(* of the check, "run_task" suspended in `await task` of _run_task,        *)
(* "connect" suspended in telegram_module.connect().  The locks hold the   *)
(* name of the task that has acquired them, "free" otherwise; an           *)
(* asyncio.Lock is given to the tasks waiting for it in the order in which *)
(* they came, and is not re-entrant.  connect_to_telegram is called at     *)
(* one place only, in start_async_tasks with _task_lock held.              *)
(***************************************************************************)
\* the tasks that run _safe_check_connections
Checkers == {"start_async_tasks", "check_connections", "_schedule_check"}

\* MainWindow.__init__: start_async_tasks scheduled, the timers started
NewTasks(telegram_module) ==
    [start_async_tasks |-> "scheduled", connect_to_telegram |-> "none",
     check_connections |-> "idle", _schedule_check |-> "idle",
     _task_lock |-> "free", _check_lock |-> "free", _waiters |-> <<>>,
     telegram_module |-> telegram_module, tg_connected |-> FALSE,
     closed |-> FALSE]

NoTasks == NewTasks(FALSE)

\* `async with self._check_lock` in _safe_check_connections, entered by `task`
enter_check(t, task) ==
    IF t._check_lock = "free" /\ t._waiters = <<>>
    THEN [t EXCEPT ![task] = "check", !._check_lock = task]
    ELSE [t EXCEPT ![task] = "wait:_check_lock", !._waiters = Append(@, task)]

\* `async with self._task_lock` in connect_to_telegram
enter_connect(t) ==
    IF t._task_lock = "free"
    THEN IF ~t.telegram_module
         THEN [t EXCEPT !.connect_to_telegram = "done"]
         ELSE [t EXCEPT !.connect_to_telegram = "connect",
                        !._task_lock = "connect_to_telegram"]
    ELSE [t EXCEPT !.connect_to_telegram = "wait:_task_lock"]

\* start_async_tasks after its _safe_check_connections
after_initial_check(t) ==
    IF ~t.tg_connected /\ t.telegram_module
    THEN enter_connect([t EXCEPT !.start_async_tasks = "run_task"])
    ELSE [t EXCEPT !.start_async_tasks = "done", !._task_lock = "free"]

\* _safe_check_connections leaves `async with self._check_lock`; connected
\* is what the check has found, FALSE also when a call of the check raised
leave_check(t, task, connected) ==
    LET left == [t EXCEPT !._check_lock = "free",
                          !.tg_connected = t.telegram_module /\ connected]
    IN  IF task = "start_async_tasks" THEN after_initial_check(left)
        ELSE [left EXCEPT ![task] = "idle"]

\* QTimer.singleShot(0, self.start_async_tasks) fires
StartAsyncTasks ==
    /\ tasks.start_async_tasks = "scheduled"
    /\ tasks' = enter_check([tasks EXCEPT !._task_lock = "start_async_tasks"],
                            "start_async_tasks")
    /\ UNCHANGED besides_tasks

\* check_timer fires: check_connections
CheckConnections ==
    /\ tasks.check_connections = "idle"
    /\ tasks' = enter_check(tasks, "check_connections")
    /\ UNCHANGED besides_tasks

\* connection_check_timer fires: _schedule_check
ScheduleCheckTask ==
    /\ tasks._schedule_check = "idle"
    /\ ~tasks.closed
    /\ tasks._check_lock = "free"
    /\ tasks' = enter_check(tasks, "_schedule_check")
    /\ UNCHANGED besides_tasks

\* the task that has waited longest for _check_lock acquires it
AcquireCheckLock ==
    /\ tasks._check_lock = "free"
    /\ tasks._waiters # <<>>
    /\ tasks' = [tasks EXCEPT ![Head(tasks._waiters)] = "check",
                              !._check_lock = Head(tasks._waiters),
                              !._waiters = Tail(@)]
    /\ UNCHANGED besides_tasks

\* the calls of a check return
SafeCheckReturns ==
    /\ \E task \in Checkers, connected \in BOOLEAN :
          /\ tasks[task] = "check"
          /\ tasks' = leave_check(tasks, task, connected)
    /\ UNCHANGED besides_tasks

\* `await task` in _run_task returns: the task is done or was cancelled
RunTaskReturns ==
    /\ tasks.start_async_tasks = "run_task"
    /\ tasks.connect_to_telegram \in {"done", "cancelled"}
    /\ tasks' = [tasks EXCEPT !.start_async_tasks = "done",
                              !._task_lock = "free"]
    /\ UNCHANGED besides_tasks

\* MainWindow.closeEvent: the tasks in _active_tasks are cancelled, the
\* timers stopped
CloseEvent ==
    /\ ~tasks.closed
    /\ tasks' = [tasks EXCEPT
                    !.closed = TRUE,
                    !.connect_to_telegram =
                        IF @ \in {"wait:_task_lock", "connect"}
                        THEN "cancelled" ELSE @,
                    !._task_lock = IF @ = "connect_to_telegram"
                                   THEN "free" ELSE @]
    /\ UNCHANGED besides_tasks

(***************************************************************************)
(* MainWindow: the group search.  search.pc is where the search task is    *)
(* suspended: "ensure_connected", "search_request" and "rate_limit_sleep"  *)
(* in TelegramModule.search_groups, "paused" in the sleep of its pause     *)
(* loop.  search.dialog is "open" while open_keyword_dialog awaits the     *)
(* keyword dialog.  requests counts the search requests of the running     *)
(* search; stopped, at_stop and stopped_at are what the search had done    *)
(* and where it was when stop_groups_process was called for it.  shutdown  *)
(* is how far handle_shutdown has come: "no", "started", "done".           *)
(***************************************************************************)
NoSearch ==
    [pc |-> "idle", query |-> 0, _search_lock |-> FALSE, dialog |-> "closed",
     stop_flag_groups |-> FALSE, is_paused_groups |-> FALSE,
     stop_button_groups |-> FALSE, pause_button_groups |-> FALSE,
     requests |-> 0, stopped |-> FALSE, at_stop |-> 0, stopped_at |-> "idle",
     refused |-> FALSE, shutdown |-> "no"]

\* perform_smart_search, its finally clauses and the end of
\* `async with self._search_lock`
search_finally(s) ==
    [s EXCEPT !.pc = "idle", !._search_lock = FALSE,
              !.stop_button_groups = FALSE, !.pause_button_groups = FALSE,
              !.stopped = FALSE]

\* search_groups sends the request of the query at s.query
search_request(s) ==
    [s EXCEPT !.pc = "search_request", !.requests = @ + 1]

\* the head of the loop over the keywords, for the query at `query` (from 1)
next_query(s, query) ==
    IF query > NumKeywords THEN search_finally(s)
    ELSE IF s.stop_flag_groups THEN search_finally(s)
    ELSE IF s.is_paused_groups
         THEN [s EXCEPT !.query = query, !.pc = "paused"]
         ELSE search_request([s EXCEPT !.query = query])

\* the pause loop of search_groups after its sleep: `break` leaves the pause
\* loop
query_resumed(s) ==
    IF s.stop_flag_groups THEN search_request(s)
    ELSE IF s.is_paused_groups THEN s
    ELSE search_request(s)

\* MainWindow.perform_smart_search, up to the call of search_groups
perform_smart_search(s, keywords) ==
    IF s._search_lock THEN [s EXCEPT !.refused = TRUE]
    ELSE IF ~keywords
         THEN [s EXCEPT !.stop_button_groups = FALSE,
                        !.pause_button_groups = FALSE]
    ELSE [s EXCEPT !._search_lock = TRUE, !.pc = "ensure_connected",
                   !.query = 0, !.requests = 0, !.stopped = FALSE,
                   !.at_stop = 0, !.stopped_at = "idle", !.refused = FALSE]

\* MainWindow.open_keyword_dialog after the dialog has returned `result`
open_keyword_dialog(s, result, keywords) ==
    IF result
    THEN perform_smart_search(
             [s EXCEPT !.dialog = "closed", !.pause_button_groups = TRUE,
                       !.stop_button_groups = TRUE,
                       !.is_paused_groups = FALSE,
                       !.stop_flag_groups = FALSE], keywords)
    ELSE [s EXCEPT !.dialog = "closed"]

\* MainWindow.pause_groups_process
pause_groups_process(s) == [s EXCEPT !.is_paused_groups = ~@]

\* MainWindow.stop_groups_process
stop_groups_process(s) ==
    [s EXCEPT !.stop_flag_groups = TRUE, !.pause_button_groups = FALSE,
              !.stop_button_groups = FALSE,
              !.stopped = s._search_lock, !.at_stop = s.requests,
              !.stopped_at = s.pc]

\* MainWindow.handle_shutdown up to its first await; _pending_tasks is empty,
\* nothing adds a task to it
handle_shutdown(s) == [s EXCEPT !.stop_flag_groups = TRUE, !.shutdown = "started"]

\* closeEvent creates the task of handle_shutdown, which runs up to
\* telegram_module.is_connected()
HandleShutdown ==
    /\ search.shutdown = "no"
    /\ search' = handle_shutdown(search)
    /\ scan' = [scan EXCEPT !.status_label = "process_stopped"]
    /\ UNCHANGED <<chk, tgvars, govvars, othervars, bot, tasks>>

\* handle_shutdown: is_connected(), disconnect() and db_module.disconnect()
\* return or raise
ShutdownDisconnects ==
    /\ search.shutdown = "started"
    /\ \E disconnected \in BOOLEAN :
          chk' = [chk EXCEPT !._is_connected = @ /\ ~disconnected]
    /\ search' = [search EXCEPT !.shutdown = "done"]
    /\ UNCHANGED <<scan, tgvars, govvars, othervars, bot, tasks>>

\* the search button of the groups is pressed: the keyword dialog opens
OpenKeywordDialog ==
    /\ search.dialog = "closed"
    /\ search' = [search EXCEPT !.dialog = "open"]
    /\ UNCHANGED besides_search

\* the keyword dialog is accepted, with or without keywords, or rejected
KeywordDialogReturns ==
    /\ search.dialog = "open"
    /\ \E result \in BOOLEAN, keywords \in BOOLEAN :
          search' = open_keyword_dialog(search, result, keywords)
    /\ UNCHANGED besides_search

\* the pause button of the groups is pressed
PauseGroups ==
    /\ search.pause_button_groups
    /\ search' = pause_groups_process(search)
    /\ UNCHANGED besides_search

\* the stop button of the groups is pressed
StopGroups ==
    /\ search.stop_button_groups
    /\ search' = stop_groups_process(search)
    /\ UNCHANGED besides_search

\* ensure_connected returns in search_groups; not connected, search_groups
\* raises
SearchEnsureConnectedReturns ==
    /\ search.pc = "ensure_connected"
    /\ \E connected \in BOOLEAN :
          search' = IF connected THEN next_query(search, 1)
                    ELSE search_finally(search)
    /\ UNCHANGED besides_search

\* asyncio.sleep(0.1) returns in the pause loop of search_groups
QueryPauseSleepEnds ==
    /\ search.pc = "paused"
    /\ search' = query_resumed(search)
    /\ UNCHANGED besides_search

\* the search request returns or raises; an exception is logged and the loop
\* continues
SearchRequestReturns ==
    /\ search.pc = "search_request"
    /\ \E answer \in {"ok", "raise"} :
          search' = IF answer = "ok"
                    THEN [search EXCEPT !.pc = "rate_limit_sleep"]
                    ELSE next_query(search, search.query + 1)
    /\ UNCHANGED besides_search

\* asyncio.sleep(rate_limit_delay) returns; reading search_results, a name
\* that is never bound, raises NameError, which is logged, and the loop
\* continues
RateLimitSleepEnds ==
    /\ search.pc = "rate_limit_sleep"
    /\ search' = next_query(search, search.query + 1)
    /\ UNCHANGED besides_search

\* asyncio.wait_for gives up after 300 s
SearchTimesOut ==
    /\ search.pc \in {"ensure_connected", "paused", "search_request",
                      "rate_limit_sleep"}
    /\ search' = search_finally(search)
    /\ UNCHANGED besides_search

\* TelegramModule.__init__
InitTelegram ==
    /\ tm \in [_is_connected : {FALSE}, _is_authorized : {FALSE},
               bot_manager : {"None"}, _connected : {FALSE},
               bot_token : {"None", "token"}, client_up : {FALSE},
               user_authorized : BOOLEAN]
    /\ pc = "idle"
    /\ req = NoRequest
    /\ pre = tm
    /\ res = NoResult
    /\ trace = <<>>

\* TelegramModule.__init__ without a bot token, for an account that has not
\* logged in
InitNoAccount == InitTelegram /\ tm.bot_token = "None" /\ ~tm.user_authorized

\* ConfigManager.__init__: the configuration loaded and a new LoadBalancer
InitGovernor ==
    /\ lb = NewLoadBalancer(0)
    /\ config \in {"default", "file"}
    /\ now = 0
    /\ glog = <<>>
    /\ gmark = 0
    /\ gcall = NoCall

\* a LoadBalancer whose fields have been set, for calculate_delay alone
InitDelay ==
    /\ lb \in [request_count : 0..MaxCount, time_window : {TicksPerHour},
                window_start : {0},
                max_requests_per_window : {Infinity, Finite(50), Finite(100),
                                           Finite(200)},
                base_delay : {Delay(0, 1000), Delay(1, 0), Delay(2, 0), Delay(3, 0)},
                max_delay : {Delay(0, 3000), Delay(5, 0), Delay(10, 0),
                             Delay(15, 0)}]
    /\ config = "default"
    /\ now \in {0, TicksPerHour + 1}
    /\ glog = <<>>
    /\ gmark = 0
    /\ gcall = NoCall

\* MainWindow.__init__: no scan and no connection check yet
InitMainWindow ==
    /\ scan \in {[NoScan EXCEPT !.max_accounts = m] : m \in 1..MaxAccounts}
    /\ chk = NoCheck

\* nothing else is in progress
NoRest == bot = NoBot /\ tasks = NoTasks /\ search = NoSearch

\* no window
NoMainWindow ==
    /\ scan = NoScan /\ chk = NoCheck /\ store = NoStore
    /\ disk = NewConfigManager(Missing) /\ boot = NoProcess
    /\ NoRest

\* the program on its first run: no configuration file yet
Init == InitTelegram /\ InitGovernor /\ config = "default" /\ NoMainWindow

Next ==
    \/ Connect
    \/ Disconnect
    \/ GetParticipants
    \/ JoinChannel
    \/ ProcessParticipants
    \/ GetEntitySafe
    \/ GetFullChannelSafe
    \/ GetGroupMembers
    \/ DelegateTask
    \/ StartBot
    \/ StopBot
    \/ EnsureConnected
    \/ GetParticipantsWithFallback
    \/ SmartScanGroup
    \/ Return
    \/ DropConnection

Spec == Init /\ [][Next]_vars

\* calculate_delay as a function of the LoadBalancer's fields
InitDelayOnly == InitNoAccount /\ InitDelay /\ NoMainWindow

SpecDelay == InitDelayOnly /\ [][CalculateDelay]_vars

NextGovernor ==
    \/ CalculateDelay
    \/ SmartDelay
    \/ ExecuteWithRateLimit
    \/ SetDelayPreset
    \/ Tick

InitGovernorOnly == InitNoAccount /\ InitGovernor /\ NoMainWindow

\* the main window: the scan, its buttons and the periodic connection check
NextScan ==
    \/ SearchAccounts
    \/ StopAccounts
    \/ PauseAccounts
    \/ PauseSleepEnds
    \/ GetEntityReturns
    \/ CanAccessReturns
    \/ GetParticipantsReturns
    \/ UpsertUserReturns
    \/ ScanSleepEnds
    \/ ScheduleCheck
    \/ CheckConnectReturns
    \/ CheckAuthorizedReturns
    \/ CheckDatabaseReturns
    \/ HandleShutdown
    \/ ShutdownDisconnects

InitScanOnly ==
    /\ InitNoAccount /\ InitGovernor /\ config = "default" /\ InitMainWindow
    /\ store = NoStore /\ disk = NewConfigManager(Missing) /\ boot = NoProcess
    /\ NoRest

SpecScan == InitScanOnly /\ [][NextScan]_vars

\* the account scan with a connected account, and the scans started while a
\* stopped scan has not finished
NextOverlap ==
    \/ SearchAccounts
    \/ StopAccounts
    \/ PauseAccounts
    \/ PauseSleepEnds
    \/ GetEntityReturns
    \/ CanAccessReturns
    \/ GetParticipantsReturns
    \/ UpsertUserReturns
    \/ ScanSleepEnds
    \/ RestartAccounts
    \/ EarlierScanResumes

InitOverlapOnly ==
    /\ InitNoAccount /\ InitGovernor /\ config = "default"
    /\ scan \in {[NoScan EXCEPT !.max_accounts = m, !.tg_connected = TRUE] :
                    m \in 1..MaxAccounts}
    /\ chk = NoCheck
    /\ store = NoStore /\ disk = NewConfigManager(Missing) /\ boot = NoProcess
    /\ NoRest

SpecOverlap == InitOverlapOnly /\ [][NextOverlap]_vars

\* the database and the scans that store a group in it
NextStore ==
    \/ FetchAndStoreParticipants
    \/ StoreParticipant
    \/ FetchAndStoreReturns

\* the database before the group is stored, without or with the users of an
\* account scan
InitStoreOnly ==
    /\ InitNoAccount /\ InitGovernor /\ config = "default"
    /\ scan = NoScan /\ chk = NoCheck /\ disk = NewConfigManager(Missing) /\ boot = NoProcess
    /\ store \in {NoStore, [NoStore EXCEPT !.users = users_stored]}
    /\ NoRest

SpecStore == InitStoreOnly /\ [][NextStore]_vars

\* the configuration manager and its file
NextConfig ==
    \/ LoadConfig
    \/ SetConfig
    \/ SaveConfig
    \/ Makedirs
    \/ Mkstemp
    \/ WriteTemp
    \/ ReplaceConfig
    \/ UnlinkTemp

\* a new ConfigManager, for a file that is missing, is no JSON document or
\* holds a configuration
InitConfigOnly ==
    /\ InitNoAccount /\ InitGovernor /\ config = "default"
    /\ scan = NoScan /\ chk = NoCheck /\ store = NoStore /\ boot = NoProcess
    /\ NoRest
    /\ disk \in {NewConfigManager(file) :
                    file \in {Missing, Partial} \cup {Complete(cfg) : cfg \in Configs}}

SpecConfig == InitConfigOnly /\ [][NextConfig]_vars

\* the start of the application
NextStartup ==
    \/ LoadAndCheck
    \/ CreateModules
    \/ InitializeBot
    \/ InitializeDatabase

InitStartupOnly ==
    /\ InitNoAccount /\ InitGovernor /\ config = "default"
    /\ scan = NoScan /\ chk = NoCheck /\ store = NoStore
    /\ disk = NewConfigManager(Missing)
    /\ NoRest
    /\ boot \in {NewProcess(file, db_reachable, token) :
                    file \in Files, db_reachable \in BOOLEAN,
                    token \in {"None", "token"}}

SpecStartup == InitStartupOnly /\ [][NextStartup]_vars

\* main runs on: a step of the start that can be taken is taken
SpecStartupRuns == InitStartupOnly /\ [][NextStartup]_vars /\ WF_vars(NextStartup)

SpecGovernor == InitGovernorOnly /\ [][NextGovernor]_vars

\* a BotManager, with or without a ConfigManager, and the calls of its methods
NextBot ==
    \/ BotStart
    \/ BotStartConnectReturns
    \/ BotTokenStartReturns
    \/ BotStartGetMeReturns
    \/ BotCheckStatus
    \/ BotCheckConnectReturns
    \/ BotCheckGetMeReturns
    \/ BotStop
    \/ BotDisconnectReturns
    \/ BotReturn
    \/ BotLinkDrops

InitBotOnly ==
    /\ InitNoAccount /\ InitGovernor /\ config = "default"
    /\ scan = NoScan /\ chk = NoCheck /\ store = NoStore
    /\ disk = NewConfigManager(Missing) /\ boot = NoProcess
    /\ bot \in {NewBot(manager) : manager \in BOOLEAN}
    /\ tasks = NoTasks /\ search = NoSearch

SpecBot == InitBotOnly /\ [][NextBot]_vars

\* the group search and its buttons
NextSearch ==
    \/ OpenKeywordDialog
    \/ KeywordDialogReturns
    \/ PauseGroups
    \/ StopGroups
    \/ SearchEnsureConnectedReturns
    \/ QueryPauseSleepEnds
    \/ SearchRequestReturns
    \/ RateLimitSleepEnds
    \/ SearchTimesOut

InitSearchOnly ==
    /\ InitNoAccount /\ InitGovernor /\ config = "default"
    /\ scan = NoScan /\ chk = NoCheck /\ store = NoStore
    /\ disk = NewConfigManager(Missing) /\ boot = NoProcess
    /\ bot = NoBot /\ tasks = NoTasks
    /\ search = NoSearch

SpecSearch == InitSearchOnly /\ [][NextSearch]_vars

\* the tasks of the main window around its two locks
NextTasks ==
    \/ StartAsyncTasks
    \/ CheckConnections
    \/ ScheduleCheckTask
    \/ AcquireCheckLock
    \/ SafeCheckReturns
    \/ RunTaskReturns
    \/ CloseEvent

InitTasksOnly ==
    /\ InitNoAccount /\ InitGovernor /\ config = "default"
    /\ scan = NoScan /\ chk = NoCheck /\ store = NoStore
    /\ disk = NewConfigManager(Missing) /\ boot = NoProcess
    /\ bot = NoBot /\ search = NoSearch
    /\ tasks \in {NewTasks(telegram_module) : telegram_module \in BOOLEAN}

\* the event loop runs every task that can run, every awaited call returns
\* and the timers fire; the window need not ever be closed
TasksRun ==
    /\ WF_vars(StartAsyncTasks)
    /\ WF_vars(AcquireCheckLock)
    /\ WF_vars(SafeCheckReturns)
    /\ WF_vars(RunTaskReturns)

SpecTasks == InitTasksOnly /\ [][NextTasks]_vars /\ TasksRun

(***************************************************************************)
(* Properties of the account scan and of the connection check.             *)
(***************************************************************************)
\* the scan is suspended in a call on the account session
ScanInSession == scan.pc \in {"get_entity", "can_access_participants", "get_participants"}

\* the connection check is suspended in a call on the account session
CheckInSession == chk.pc \in {"connect", "client.is_user_authorized"}

\* C11: once stop_accounts_process has set the stop flag, the scan requests no
\* further participant list and begins no further participant, and when it
\* has finished the status still says that the scan was stopped, so that the
\* accounts in the table are marked as a partial result.
C11_StopHaltsScan ==
    scan.stop_flag_accounts =>
        /\ scan.fetched = scan.at_stop.fetched
        /\ scan.started = scan.at_stop.started
        /\ (scan.pc = "done" => scan.status_label = "accounts_process_stopped")

\* C12: the scan and the connection check are never both inside a call on
\* the account session.
C12_SessionCallsAreExclusive == ~(ScanInSession /\ CheckInSession)

\* the scan is paused and has not been told to stop
PausedAccounts == scan.is_paused_accounts /\ ~scan.stop_flag_accounts

\* the positions in their list of the participants begun for the group at
\* `index`, in the order in which they were begun
BegunOf(index) ==
    LET of_group == SelectSeq(scan.begun, LAMBDA e : e[1] = index)
    IN  [k \in DOMAIN of_group |-> of_group[k][2]]

\* the groups were begun in the order of the list, each once, and so were
\* the participants of each group
BegunInOrder ==
    /\ \A k \in DOMAIN scan.groups_begun : scan.groups_begun[k] = k
    /\ \A index \in 1..NumGroups :
           \A k \in DOMAIN BegunOf(index) : BegunOf(index)[k] = k

\* C21: while the scan is paused and not stopped it begins no group and no
\* participant; the item begun after a pause loop is the one the scan waited
\* in front of; and whatever the toggles of the pause button, the groups and
\* the participants of each group are begun in the order of their lists,
\* none skipped and none repeated.
C21_PauseKeepsThePlace ==
    [][/\ ((PausedAccounts /\ PausedAccounts')
             => (scan'.begun = scan.begun
                 /\ scan'.groups_begun = scan.groups_begun))
        /\ ((scan.pc = "participant_paused" /\ scan'.begun # scan.begun)
             => (scan'.begun = Append(scan.begun,
                                      <<scan.index, scan.participant_index>>)))
        /\ ((scan.pc = "group_paused"
                 /\ scan'.groups_begun # scan.groups_begun)
             => (scan'.groups_begun = Append(scan.groups_begun, scan.index)))
        /\ BegunInOrder']_vars

\* the pause has been toggled off while the scan waited in front of a
\* participant, after it had processed another one
C21_Witness ==
    /\ scan.pc = "participant_paused"
    /\ ~scan.is_paused_accounts /\ ~scan.stop_flag_accounts
    /\ scan.status_label = "accounts_process_resumed"
    /\ Len(scan.begun) >= 1

\* C22: when the stop flag was set while the scan waited in a pause loop,
\* the group it waited in front of is not begun and no participant list is
\* requested for it, and the participant it waited in front of is not begun.
C22_StopInPauseSkipsTheItem ==
    (scan.stop_flag_accounts
        /\ scan.at_stop.pc \in {"group_paused", "participant_paused"})
    => /\ scan.fetched = scan.at_stop.fetched
       /\ scan.started = scan.at_stop.started
       /\ scan.pc # "get_entity"

\* C28: accounts_count never exceeds max_accounts and is the number of rows
\* of the accounts table.
C28_CountWithinLimit ==
    /\ scan.accounts_count <= scan.max_accounts
    /\ scan.accounts_count = Len(scan.accounts_table)

\* C29: once handle_shutdown has started, the stop flags of the group search
\* and of the account scan are both set.
C29_ShutdownSetsBothFlags ==
    search.shutdown # "no"
        => (search.stop_flag_groups /\ scan.stop_flag_accounts)

(***************************************************************************)
(* Properties of smart_scan_group.                                         *)
(***************************************************************************)
\* smart_scan_group has returned
SmartScanned == pc = "returned" /\ req.op = "smart_scan_group"

\* a connected bot session that can enumerate the group
BotCanScan ==
    /\ pre.bot_token # "None" /\ pre.bot_manager # "None" /\ pre._connected
    /\ req.bot_answer = "ok"

\* C23: when a bot token is configured and a bot session exists that can
\* list the group, smart_scan_group returns the bot's members with
\* method_used 'bot' and success True; success is True exactly when
\* method_used is 'bot' or 'account'.
C23_BotIsTriedFirst ==
    SmartScanned =>
        /\ res.ret.success <=> res.ret.method_used \in {"bot", "account"}
        /\ BotCanScan => (res.ret.method_used = "bot" /\ res.ret.members = BotMembers)

(***************************************************************************)
(* Properties of the group search.                                         *)
(***************************************************************************)
\* C27: a search that was told to stop while it was not in its pause loop
\* sends no further search request until it has finished, whatever the
\* dialog and the buttons do meanwhile.
C27_StopStaysInEffect ==
    (search.stopped /\ search.stopped_at # "paused")
        => search.requests = search.at_stop

(***************************************************************************)
(* Properties of the tasks of the main window.                             *)
(***************************************************************************)
\* C26: start_async_tasks comes to its end and _task_lock is free again.
C26_StartAsyncTasksTerminates ==
    <>(tasks.start_async_tasks = "done" /\ tasks._task_lock = "free")

(***************************************************************************)
(* Properties of the BotManager.                                           *)
(***************************************************************************)
\* C24: _connected is set only by a start in which connect, the start with
\* the token and a get_me that returned a bot account have succeeded in that
\* order; a start in which a step failed leaves _connected False, has
\* recorded the status 'error' if a ConfigManager is set, and raises; and
\* the status 'active' is recorded only by start or check_status after
\* get_me has returned a bot account.
C24_ConnectedMeansVerified ==
    /\ (bot._connected /\ ~bot.was_connected)
        => (bot.op = "start" /\ bot.awaited = <<"connect", "start", "get_me">>)
    /\ (bot.pc = "returned" /\ bot.op = "start" /\ bot.failed)
        => /\ ~bot._connected
           /\ bot.raised # "none"
           /\ bot.config_manager
               => (bot.status = "error" /\ bot.recorded = "error")
    /\ (bot.recorded = "active")
        => /\ bot.op \in {"start", "check_status"}
           /\ bot.awaited # <<>>
           /\ bot.awaited[Len(bot.awaited)] = "get_me"

\* a start has failed at get_me, after connect and the start with the token,
\* and the error has been recorded
C24_Witness ==
    /\ bot.pc = "returned" /\ bot.op = "start" /\ bot.failed
    /\ bot.awaited = <<"connect", "start">>
    /\ bot.raised = "Exception"
    /\ bot.status = "error"

(***************************************************************************)
(* Properties of the database and of fetch_and_store_participants.         *)
(***************************************************************************)
\* the positions of the rows of participants for user u in group g
ParticipantRows(table, u, g) ==
    {i \in DOMAIN table : participant_key(table[i]) = <<u, g>>}

\* a table without the timestamps of its rows
WithoutTime(table) ==
    [i \in DOMAIN table |-> [table[i] EXCEPT !.last_updated = 0]]

\* the scan that is storing has come to the end of its list
ScanStored == store.pc = "storing" /\ Len(store.issued) = Len(store.returned)

\* the records a statement can carry
ParticipantInfos ==
    [user_id : 1..NumUsers, group_id : {scanned_group, other_group},
     first_name : first_names]
UserInfos == [id : 1..NumUsers, first_name : first_names]

\* no two rows of a table of participants, or of users, have one key
UniqueParticipants(table) ==
    \A i, j \in DOMAIN table :
        participant_key(table[i]) = participant_key(table[j]) => i = j
UniqueUsers(table) ==
    \A i, j \in DOMAIN table : user_key(table[i]) = user_key(table[j]) => i = j

\* applying a record a second time, later, changes only the timestamp, and
\* leaves one row for its key
AppliedTwiceIsAppliedOnce ==
    /\ \A info \in ParticipantInfos :
           /\ WithoutTime(upsert_participant(
                   upsert_participant(store.participants, info, store.scans + 1, "ok"),
                   info, store.scans + 2, "ok"))
              = WithoutTime(upsert_participant(store.participants, info,
                                               store.scans + 1, "ok"))
           /\ UniqueParticipants(upsert_participant(
                   upsert_participant(store.participants, info, store.scans + 1, "ok"),
                   info, store.scans + 2, "ok"))
    /\ \A info \in UserInfos :
           /\ WithoutTime(upsert_user(
                   upsert_user(store.users, info, store.scans + 1, "ok"),
                   info, store.scans + 2, "ok"))
              = WithoutTime(upsert_user(store.users, info, store.scans + 1, "ok"))
           /\ UniqueUsers(upsert_user(
                   upsert_user(store.users, info, store.scans + 1, "ok"),
                   info, store.scans + 2, "ok"))

\* C17: a scan issues one upsert_participant for each participant of its
\* list, in the order of the list, and writes no row of users; every
\* (user_id, group_id) and every user id has one row at most; the row of a
\* participant whose statement the
\* database executed carries the values of the last statement executed and
\* its time, a participant none of whose statements was executed has no
\* row; the rows of the other group are left alone; and applying a record
\* twice gives the table that applying it once gives, apart from the
\* timestamp.
C17_UpsertIsIdempotent ==
    /\ store.pc = "storing" =>
           /\ Len(store.issued) <= Len(store.returned)
           /\ \A i \in DOMAIN store.issued : store.issued[i] = i
    /\ UniqueParticipants(store.participants)
    /\ UniqueUsers(store.users)
    /\ store.users \in {<<>>, users_stored}
    /\ \A u \in 1..NumUsers :
           /\ Cardinality(ParticipantRows(store.participants, u, scanned_group))
                  = IF store.executed[u].times = 0 THEN 0 ELSE 1
           /\ \A i \in ParticipantRows(store.participants, u, scanned_group) :
                  store.participants[i].first_name = store.executed[u].first_name
           /\ \A i \in ParticipantRows(store.participants, u, other_group) :
                  store.participants[i].first_name = "old"
                  /\ store.participants[i].last_updated = 0
           /\ Cardinality(ParticipantRows(store.participants, u, other_group)) = 1
    /\ AppliedTwiceIsAppliedOnce

\* the second scan of the group has stored a user a second time, with other
\* values
C17_Witness ==
    /\ ScanStored
    /\ store.scans = 1
    /\ store.executed[1].times = 2
    /\ \E i \in ParticipantRows(store.participants, 1, scanned_group) :
           /\ store.participants[i].first_name = "new"
           /\ store.participants[i].last_updated = 2
    /\ store.users = users_stored

\* C17 as stated: after a scan every participant of its list has its one row
\* with the values of this scan
C17_EveryScannedParticipantIsStored ==
    ScanStored =>
        \A u \in DOMAIN store.returned :
            /\ Cardinality(ParticipantRows(store.participants, u, scanned_group)) = 1
            /\ \A i \in ParticipantRows(store.participants, u, scanned_group) :
                   store.participants[i].first_name = store.returned[u]

(***************************************************************************)
(* Properties of the configuration file.                                   *)
(***************************************************************************)
\* a save_config has returned or raised
SaveLeft == disk.pc = "idle" /\ disk.result # "none"

\* a save_config has failed
SaveFailed == SaveLeft /\ disk.result \in {"raised", "logged"}

\* the file holds what it held before the save, whole, or the whole new
\* configuration
FileIsOldOrNew == disk.file = disk.previous \/ disk.file = Complete(disk.config)

\* C18: at every step of a save the configuration file holds what it held
\* before the save or the whole new configuration; a save that fails leaves
\* what the file held before, raises to its caller (load_config logs it),
\* and leaves a temporary file behind only when the removal of that file
\* failed too; a save that succeeds leaves the new configuration and no
\* temporary file.
C18_SaveIsAtomic ==
    /\ disk.pc # "idle" \/ SaveLeft => FileIsOldOrNew
    /\ disk.pc \in {"makedirs", "mkstemp", "write", "replace", "unlink"} =>
           disk.file = disk.previous
    /\ SaveFailed =>
           /\ disk.file = disk.previous
           /\ disk.temp = "none" \/ disk.removal = "error"
           /\ disk.result = IF disk.caller = "load_config" THEN "logged" ELSE "raised"
    /\ SaveLeft /\ disk.result = "saved" =>
           disk.file = Complete(disk.config) /\ disk.temp = "none"

\* a save_config of a changed configuration has failed in os.replace, with
\* the temporary file written whole and removed again
C18_Witness ==
    /\ SaveFailed
    /\ disk.caller = "save_config"
    /\ disk.previous.state = "complete"
    /\ disk.previous # Complete(disk.config)
    /\ disk.file = disk.previous
    /\ disk.removal = "ok"
    /\ disk.temp = "none"

\* C18 as stated: a save that has failed has removed its temporary file
C18_FailedSaveRemovesTemp == SaveFailed => disk.temp = "none"

\* load_config has returned, for a file that held a configuration
Loaded ==
    /\ disk.pc = "idle"
    /\ disk.caller = "load_config"
    /\ disk.loaded.state = "complete"

\* C19: after load_config of a file that holds a configuration, every
\* section of the defaults is in memory, every section the file had has the
\* values it had in the file (api_id apart, and api_hash and phone_number as
\* strings), and the file holds the configuration in memory when the save
\* has succeeded.
C19_LoadKeepsFileValues ==
    Loaded =>
        /\ disk.config.telegram.present
        /\ disk.config.database # "absent"
        /\ disk.config.limits # "absent"
        /\ disk.loaded.config.database # "absent" =>
               disk.config.database = disk.loaded.config.database
        /\ disk.loaded.config.limits # "absent" =>
               disk.config.limits = disk.loaded.config.limits
        /\ disk.loaded.config.telegram.present =>
               disk.config.telegram.api_hash
                   = IF disk.loaded.config.telegram.api_hash = "number" THEN "str"
                     ELSE disk.loaded.config.telegram.api_hash
        /\ disk.result = "saved" => disk.file = Complete(disk.config)

(***************************************************************************)
(* Properties of the start of the application.                             *)
(***************************************************************************)
\* the configuration main has loaded cannot be used: no api_id, or no
\* api_hash and phone number
ConfigInvalid ==
    boot.pc # "main" /\ (boot.config.telegram.api_id # "int"
                         \/ boot.config.telegram.api_hash = "empty")

ReadyForDatabase ==
    /\ boot.pc = "database"
    /\ ~ConfigInvalid
    /\ boot.telegram_module
    /\ boot.db_reachable

\* C30: with a valid configuration and a database server that can be
\* reached, the start of the application eventually shows the main window:
\* the connection pool exists when the connection is checked, so the check
\* succeeds.
C30_StartupShowsTheWindow == ReadyForDatabase ~> boot.window_shown

(***************************************************************************)
(* Properties of the scan delegator and of the account session's calls.    *)
(***************************************************************************)
Returned(op) == pc = "returned" /\ req.op = op

\* delegate_task('get_participants', g) has returned
Delegated == Returned("delegate_task") /\ req.task_type = "get_participants"

\* the places of the trace where `op` was sent
Sent(op) == {i \in DOMAIN trace : trace[i].op = op}

BotOps == {"bot_manager.is_connected", "bot.connect", "bot.start", "bot.get_me",
           "bot.disconnect", "bot.iter_participants"}

AccountOps == {"client.connect", "client.is_user_authorized", "client.get_entity",
               "client.get_participants"}

\* a bot session existed and was connected when the call started
BotConnectedBefore == pre.bot_manager # "None" /\ pre._connected

\* the account session was connected and authorized when the call started, and
\* the platform answers every request of the call
AccountCanServe ==
    /\ pre._is_connected /\ pre._is_authorized /\ pre.client_up
    /\ \A i \in DOMAIN req.script : req.script[i] = "ok"

\* the account session's participant fetch returned the list
AccountFetched == \E i \in Sent("client.get_participants") : trace[i].r = "ok"

BotFetched == \E i \in Sent("bot.iter_participants") : trace[i].r = "ok"

\* seconds slept between places i and j of the trace, in tenths
RECURSIVE SleptBetween(_, _)
SleptBetween(i, j) ==
    IF i >= j THEN 0
    ELSE (IF trace[i].op = "sleep" THEN trace[i].n ELSE 0) + SleptBetween(i + 1, j)

\* C1: when a connected bot session is denied the participant list and the
\* account session can serve the request, delegate_task returns success=True,
\* executor='account' and exactly the account session's list.
C1_DeniedBotFallsBackToAccount ==
    (Delegated /\ BotConnectedBefore /\ req.bot_answer = "ChatAdminRequiredError"
        /\ AccountCanServe)
    => /\ res.ret.success
       /\ res.ret.executor = "account"
       /\ res.ret.data = <<AccountParticipants>>

\* C2, as claimed: with bot_manager None, delegate_task makes no call of any
\* kind to a bot session, and an account session that serves the request is
\* named as the executor.
C2_NoBotCallOfAnyKind ==
    (Delegated /\ pre.bot_manager = "None")
    => /\ \A i \in DOMAIN trace : trace[i].op \notin BotOps
       /\ AccountFetched => (res.ret.success /\ res.ret.executor = "account")

\* C2, amended: with bot_manager None, delegate_task makes no connectivity
\* query and no participant fetch on a bot session; it reaches a bot session
\* only through connect(), which starts one when the account was not yet
\* connected and a bot token is configured; and an account session that serves
\* the request is named as the executor, with its list as the data.
C2_NoBotFetchWithoutBotManager ==
    (Delegated /\ pre.bot_manager = "None")
    => /\ \A i \in DOMAIN trace :
              trace[i].op \notin {"bot_manager.is_connected", "bot.iter_participants"}
       /\ (pre._is_connected \/ pre.bot_token = "None")
              => \A i \in DOMAIN trace : trace[i].op \notin BotOps
       /\ \A i \in DOMAIN trace :
              trace[i].op \in BotOps
                  => \E j \in Sent("client.connect") : j < i /\ trace[j].r = "ok"
       /\ AccountFetched
              => /\ res.ret.success
                 /\ res.ret.executor = "account"
                 /\ res.ret.data = <<AccountParticipants>>

\* C2, its case: no bot manager, and the account session served the request
C2_Witness ==
    /\ Delegated /\ pre.bot_manager = "None"
    /\ AccountFetched
    /\ res.ret.executor = "account"

\* C3: delegate_task goes START -> TRY_BOT -> (SUCCESS | TRY_ACCOUNT) ->
\* (SUCCESS | FAILED): a connected bot session's fetch is attempted first, the
\* account session is called only after the bot attempt failed or was skipped,
\* a successful bot attempt ends the request with executor='bot' and no account
\* call, and each session's fetch is attempted at most once.
C3_BotFirstThenAccount ==
    Delegated
    => /\ BotConnectedBefore
              => \E i \in Sent("bot.iter_participants") :
                     \A j \in 1..(i - 1) : trace[j].op \notin AccountOps
       /\ \A j \in DOMAIN trace :
              trace[j].op \in AccountOps
                  => \/ ~BotConnectedBefore
                     \/ \E i \in Sent("bot.iter_participants") : i < j /\ trace[i].r # "ok"
       /\ BotFetched
              => /\ res.ret.success /\ res.ret.executor = "bot"
                 /\ \A j \in DOMAIN trace : trace[j].op \notin AccountOps
       /\ Cardinality(Sent("bot.iter_participants")) <= 1
       /\ Cardinality(Sent("client.get_participants")) <= 1

\* C4: delegate_task fails only when no session is available or both attempts
\* failed, and a result with success=True carries the list that the session
\* named in executor returned.
C4_FailsOnlyWhenBothFail ==
    Delegated
    => /\ ~res.ret.success
              => /\ \/ ~BotConnectedBefore
                    \/ \E i \in Sent("bot.iter_participants") : trace[i].r # "ok"
                 /\ \/ ~(tm._is_connected /\ tm._is_authorized /\ tm.client_up)
                    \/ \E i \in DOMAIN trace :
                           /\ trace[i].op \in {"client.get_entity", "client.get_participants"}
                           /\ trace[i].r # "ok"
       /\ (res.ret.success /\ res.ret.executor = "account")
              => (AccountFetched /\ res.ret.data = <<AccountParticipants>>)
       /\ (res.ret.success /\ res.ret.executor = "bot")
              => (BotFetched /\ res.ret.data = <<BotMembers>>)

\* C5: when the bot session answers the participant fetch with a rate limit of
\* n seconds, the request is not dropped: the account fallback is attempted,
\* and at least min(n, 300) seconds after that answer.
C5_RateLimitedBotWaitsThenFallsBack ==
    (Delegated /\ BotConnectedBefore /\ req.bot_answer = "FloodWaitError")
    => \E i \in Sent("bot.iter_participants") :
           \E j \in DOMAIN trace :
               /\ i < j
               /\ trace[j].op \in AccountOps
               /\ \A k \in (i + 1)..(j - 1) : trace[k].op \notin AccountOps
               /\ SleptBetween(i, j) >= Min(Seconds(BotRetryAfter), Seconds(300))

\* C6: in get_participants, join_channel and process_participants a FloodWait
\* answer to a request is followed by a sleep of the mandated seconds and then
\* by the same request again, so that the rate limit is not what the caller
\* gets (stated for calls made on a connected and authorized session).
C6_FloodWaitIsRetried ==
    (/\ Returned("get_participants") \/ Returned("join_channel")
            \/ Returned("process_participants")
     /\ pre._is_connected /\ pre._is_authorized /\ pre.client_up)
    => \A i \in DOMAIN trace :
           (/\ trace[i].op \in {"client.get_entity", "client.get_participants",
                                "JoinChannelRequest"}
            /\ trace[i].r = "FloodWaitError")
           => /\ i + 2 <= Len(trace)
              /\ trace[i + 1] = Event("sleep", "", Seconds(FloodSeconds))
              /\ trace[i + 2].op = trace[i].op

\* the requests get_entity_safe and get_full_channel_safe repeat
SafeRequests == Sent("client.get_entity") \cup Sent("GetFullChannelRequest")

\* C7: get_entity_safe and get_full_channel_safe send at most `retries`
\* requests whatever the errors, wait 2^attempt seconds after a transient
\* error, and return (None, once the attempts are exhausted) without raising.
C7_SafeGettersAreBoundedAndNeverRaise ==
    (Returned("get_entity_safe") \/ Returned("get_full_channel_safe"))
    => /\ Cardinality(SafeRequests) <= req.retries
       /\ res.exc = "none"
       /\ Cardinality(SafeRequests) = req.retries
              /\ (\A i \in SafeRequests : trace[i].r # "ok")
              => res.ret = "None"
       /\ \A i \in SafeRequests :
              (/\ trace[i].r = "ChatAdminRequiredError"
               /\ Cardinality({k \in SafeRequests : k < i}) < req.retries - 1
               /\ \A k \in 1..i : trace[k].op \in {"sleep"} \cup
                                      {"client.get_entity", "GetFullChannelRequest"})
              => /\ i < Len(trace)
                 /\ trace[i + 1] = Event("sleep", "",
                        Seconds(Pow2(Cardinality({k \in SafeRequests : k < i}))))

(***************************************************************************)
(* Properties of connect, disconnect and the fallbacks of the two sessions. *)
(***************************************************************************)
\* C13: connect() on a connected account session and start() on a connected
\* bot session send nothing to the client, create no bot session and leave
\* every flag as it was.
C13_ConnectWhenConnectedIsNoOp ==
    /\ (Returned("connect") /\ pre._is_connected)
           => /\ \A i \in DOMAIN trace : trace[i].op = "sleep"
              /\ tm = pre
              /\ res = [ret |-> TRUE, exc |-> "none"]
    /\ (Returned("start") /\ pre._connected)
           => /\ trace = <<>>
              /\ tm = pre
              /\ res.exc = "none"

\* C13, its case: connect() on a connected account that has a bot token but
\* no bot session
C13_Witness ==
    /\ Returned("connect") /\ pre._is_connected
    /\ pre.bot_token = "token" /\ pre.bot_manager = "None"

\* the requests of connect that went to the bot client
BotStartRequests ==
    {i \in DOMAIN trace : trace[i].op \in {"bot.connect", "bot.start", "bot.get_me"}}

\* C25: connect() sends nothing to the bot client before the account client's
\* connect has succeeded, and when a request of the bot's start fails,
\* connect() still returns True, with the account connected and bot_manager
\* None.
C25_BotFailureKeepsAccount ==
    Returned("connect")
    => /\ \A i \in BotStartRequests :
              \E j \in 1..(i - 1) :
                  trace[j].op = "client.connect" /\ trace[j].r = "ok"
       /\ (\E i \in BotStartRequests : trace[i].r # "ok")
              => /\ res = [ret |-> TRUE, exc |-> "none"]
                 /\ tm._is_connected /\ tm.client_up
                 /\ tm.bot_manager = "None" /\ ~tm._connected

\* C25, its case: the account connected and the bot's start failed
C25_Witness ==
    /\ Returned("connect") /\ ~pre._is_connected
    /\ \E i \in BotStartRequests : trace[i].r # "ok"
    /\ tm._is_connected

\* C14: disconnect() and stop() on a disconnected session send nothing,
\* raise nothing and change nothing; on a connected session, when they return
\* normally, the connected flag is false (for the account the authorized flag
\* too) and the client is disconnected.
C14_DisconnectIsSafe ==
    /\ (Returned("disconnect") /\ ~pre._is_connected)
           => (trace = <<>> /\ res.exc = "none" /\ tm = pre)
    /\ (Returned("stop") /\ ~pre._connected)
           => (trace = <<>> /\ res.exc = "none" /\ tm = pre)
    /\ (Returned("disconnect") /\ pre._is_connected /\ res.exc = "none")
           => /\ ~tm._is_connected /\ ~tm._is_authorized /\ ~tm.client_up
              /\ \E i \in Sent("client.disconnect") : trace[i].r = "ok"
    /\ (Returned("stop") /\ pre._connected /\ res.exc = "none")
           => /\ ~tm._connected
              /\ \E i \in Sent("bot.disconnect") : trace[i].r = "ok"

\* C14, its case: disconnect() closed a connected account and its connected bot
C14_Witness ==
    /\ Returned("disconnect") /\ pre._is_connected /\ pre._connected
    /\ res.exc = "none"

\* C15: ensure_connected() returns True only when the account client is
\* connected and the user is authorized, and returns False otherwise.
C15_EnsureConnectedIsTruthful ==
    Returned("ensure_connected")
    => /\ res.exc = "none"
       /\ res.ret = (tm.client_up /\ tm.user_authorized)

\* C16: get_participants_with_fallback returns the bot's member list, without
\* calling the account's get_participants, when monitor_group reports the
\* group as accessible to the bot, and the account session's list when the bot
\* is absent, fails or reports the group as not accessible.
C16_BotFirstParticipants ==
    Returned("get_participants_with_fallback")
    => IF BotConnectedBefore /\ req.bot_answer = "ok"
       THEN /\ res.ret = BotMembers
            /\ Sent("client.get_participants") = {}
       ELSE AccountFetched => res.ret = AccountParticipants

(***************************************************************************)
(* Properties of the rate governor.                                        *)
(***************************************************************************)
\* the last call ran calculate_delay
Calculated == gcall.op \in {"calculate_delay", "smart_delay", "execute_with_rate_limit"}

\* the load factor of the last calculate_delay is below num / den: an
\* unlimited window makes it zero
FactorBelow(num, den) ==
    \/ gcall.before.max_requests_per_window.inf
    \/ den * gcall.used < num * gcall.before.max_requests_per_window.n

\* the delay of the stated tiers before jitter, cap and floor
StatedDelay ==
    IF FactorBelow(1, 4) THEN gcall.before.base_delay
    ELSE IF FactorBelow(1, 2) THEN 2 * gcall.before.base_delay
    ELSE IF FactorBelow(3, 4) THEN 3 * gcall.before.base_delay
    ELSE backoff_delay(gcall.before.base_delay, gcall.used,
                       gcall.before.max_requests_per_window.n)

\* C8: without jitter calculate_delay returns base_delay below a load factor
\* of 0.25, twice it below 0.5, three times it below 0.75 and
\* base_delay * backoff_factor^(10 * f) from there on, capped at max_delay and
\* then floored at 0.5 s; with any jitter of up to 20% either way the result
\* lies between 0.5 s and max(0.5 s, max_delay).
C8_DelayTiers ==
    gcall.op = "calculate_delay"
    => /\ gcall.jitter = 0
              => gcall.delay = Max(Min(StatedDelay, gcall.before.max_delay),
                                   Delay(0, 5000))
       /\ gcall.delay >= Delay(0, 5000)
       /\ gcall.delay <= Max(Delay(0, 5000), gcall.before.max_delay)

\* C8, its case: a load factor of 0.75 or more whose delay, without jitter,
\* is neither capped nor floored
C8_Witness ==
    /\ gcall.op = "calculate_delay" /\ gcall.jitter = 0
    /\ ~FactorBelow(3, 4)
    /\ gcall.delay > 3 * gcall.before.base_delay
    /\ gcall.delay < gcall.before.max_delay

WithinLastHour == {i \in 1..gcall.logged : gcall.at - glog[i] <= TicksPerHour}
InsideLastHour == {i \in 1..gcall.logged : gcall.at - glog[i] < TicksPerHour}

\* C10, as claimed: the request count calculate_delay uses is that of a
\* one-hour rolling window: no request older than one hour is counted and
\* every request made within the last hour is.
C10_RollingWindowCount ==
    Calculated
    => /\ gcall.used <= Cardinality(WithinLastHour)
       /\ gcall.used >= Cardinality(InsideLastHour)

\* C10, amended: the request count calculate_delay uses is the number of
\* requests made since the window in force began; a call made more than one
\* hour after the window began starts a new window with a count of zero; so no
\* counted request is older than one hour, while requests made within the last
\* hour but before the window began are not counted.
C10_FixedWindowCount ==
    Calculated
    => /\ gcall.used = gcall.logged - gcall.mark
       /\ gcall.at - gcall.before.window_start > TicksPerHour => gcall.used = 0
       /\ \A i \in (gcall.mark + 1)..gcall.logged : gcall.at - glog[i] <= TicksPerHour

\* C10, its case: a new window has begun, a request of the last hour is left
\* out of the count and a later one is in it
C10_Witness ==
    /\ Calculated
    /\ gcall.mark >= 1
    /\ gcall.used >= 1
    /\ gcall.used < Cardinality(InsideLastHour)

====
